---- MODULE Spec2Model ----
(***************************************************************************)
(* Assignment / locking scheduler of the annotation platform               *)
(* (backend/app/routers/texts.py): text import, next-text assignment with  *)
(* lazy lock expiry, submission, skip/trash flags and their removal.       *)
(* Every request handler is one transaction: a handler is modelled as the  *)
(* function from the stored tables to its response and the tables it       *)
(* commits, and as the action that commits them.  Spec runs the handlers   *)
(* one after the other; SpecTx runs get_next_text statement by statement,  *)
(* concurrently for several annotators, under the row locks of             *)
(* SELECT ... FOR UPDATE SKIP LOCKED.                                      *)
(***************************************************************************)
EXTENDS Integers, Sequences, FiniteSets, TLC

\* ------------------------------------------------------------------ bounds
NumAnnotators == 2
NumCategories == 2
MaxTexts == 2
MaxRequired == 2
MaxTicks == 2
MaxSteps == 5
MaxSaveSteps == 3
MaxAnnotations == 2
MaxBatch == 2
MaxClientVersion == 1
NumClients == 2
MaxRenderAnns == 2
MaxSourceLen == 4
MaxMoveIndex == 2
MaxMoveLen == 2
TimeStep == 30

\* ------------------------------------------------------- program constants
\* LOCK_DURATION = timedelta(minutes=30); the clock of the model counts minutes
LOCK_DURATION == 30

Annotators == 1 .. NumAnnotators
Categories == 1 .. NumCategories
\* category ids a request can carry: the existing ones and an unknown one
CategoryIds == 1 .. (NumCategories + 1)

\* a nullable column holds NULL or Some(v)
NULL == << >>
Some(v) == << v >>
Val(x) == x[1]

\* variant: only a submission closes a task
terminal_statuses_submitted_only == {"submitted"}

terminal_statuses == {"submitted", "skip", "trash"}

VARIABLES
    texts,        \* table texts: sequence of rows, the id is the index
    tasks,        \* table annotation_tasks: set of rows
    skipped,      \* table skipped_texts: set of rows
    cvResults,    \* table cross_validation_results: set of rows
    annotations,  \* table annotations: set of rows
    versions,     \* table annotation_versions: set of rows
    errorTypes,   \* table error_types: sequence of en_name, the id is the index
    now,          \* wall clock, in minutes
    steps,        \* number of committed steps and clock advances so far
    txs,          \* per annotator, the get_next_text transaction in flight (SpecTx)
    seqs,         \* last id issued by the sequences of annotations and annotation_versions
    saveTxs,      \* per client, the save_annotations transaction in flight (SpecSaveTx)
    rend,         \* the render request in flight and its response (SpecRender)
    submitTxs     \* per annotator, the submit transaction in flight (SpecSubmitTx)

dbvars == << texts, tasks, skipped, cvResults, annotations, versions, errorTypes >>
vars == << texts, tasks, skipped, cvResults, annotations, versions, errorTypes, now, steps, txs, seqs,
          saveTxs, rend, submitTxs >>

TextIds == DOMAIN texts
\* text ids a request can carry: the existing ones and an unknown one
RequestTextIds == 1 .. (MaxTexts + 1)

\* ------------------------------------------------------------ table helpers
TaskOf(tk, t, a) == {k \in tk : k.text_id = t /\ k.annotator_id = a}
SubmittedCount(tk, t) == Cardinality({k \in tk : k.text_id = t /\ k.status = "submitted"})
\* variant: the annotations of the text, whoever wrote them
AnnotationsOf_anyone(t, a) == {n \in annotations : n.text_id = t}
AnnotationsOf(t, a) == {n \in annotations : n.text_id = t /\ n.author_id = a}

Max(S) == CHOOSE m \in S : \A x \in S : x <= m
Min(S) == CHOOSE m \in S : \A x \in S : m <= x
NextId(rows) == IF rows = {} THEN 1 ELSE Max({r.id : r \in rows}) + 1

\* the hash of the content of text t: distinct contents have distinct hashes
_sha256_text(t) == << "sha256", t >>

\* no transaction in flight
IdleTx == [pc |-> "idle", cat |-> 0, locks |-> {}, swept |-> {}, chosen |-> 0,
           fresh |-> FALSE, overlap |-> {}]

\* ------------------------------------------------------------------- Init
\* the clients that save concurrently, and a client with no save in flight
Clients == 1 .. NumClients
IdleSave ==
    [pc |-> "idle", author |-> 0, text |-> 0, client_version |-> 0, loaded |-> 0,
     base |-> {}, rows |-> {}, vers |-> {}, seq0 |-> [annotations |-> 0, versions |-> 0],
     status |-> 0, concurrent |-> FALSE]

IdleSubmit ==
    [pc |-> "idle", text |-> 0, held |-> FALSE, at |-> 0, loaded_state |-> "pending",
     annotation_id |-> 0, version_id |-> 0, done |-> FALSE, queued |-> "none"]

IdleRender == [pc |-> "idle", source |-> << >>, anns |-> << >>, tokens |-> << >>, text |-> << >>]

InitTables ==
    /\ texts = << >>
    /\ tasks = {}
    /\ skipped = {}
    /\ cvResults = {}
    /\ annotations = {}
    /\ versions = {}
    /\ errorTypes = << "other" >>
    /\ now = 0
    /\ steps = 0
    /\ txs = [a \in Annotators |-> IdleTx]
    /\ seqs = [annotations |-> 0, versions |-> 0]
    /\ saveTxs = [c \in Clients |-> IdleSave]
    /\ submitTxs = [a \in Annotators |-> IdleSubmit]

Init == InitTables /\ rend = IdleRender

\* a behaviour of the model is at most MaxSteps committed requests and clock
\* advances long
Committed == steps < MaxSteps /\ steps' = steps + 1

\* the wall clock advances between requests: a step of the clock is longer
\* than any request
Tick ==
    /\ Committed
    /\ \A a \in Annotators : txs[a].pc = "idle"
    /\ now + TimeStep <= MaxTicks * TimeStep
    /\ now' = now + TimeStep
    /\ UNCHANGED << dbvars, txs, seqs, saveTxs, rend, submitTxs >>

\* ------------------------------------------------- POST /api/texts/import
\* the items of a request that survive normalisation and the external-id
\* de-duplication; an item is TRUE when it carries annotations
ImportBatches == UNION {[1 .. n -> BOOLEAN] : n \in 0 .. MaxTexts}
AnnotatedBefore(items, i) == Cardinality({j \in 1 .. (i - 1) : items[j]})

\* _queue_cross_validation: create the row, or re-arm the existing one
_queue_cross_validation(cv, t) ==
    IF \E r \in cv : r.text_id = t
    THEN {IF r.text_id = t THEN [r EXCEPT !.status = "pending", !.result = "empty"] ELSE r : r \in cv}
    ELSE cv \cup {[id |-> NextId(cv), text_id |-> t, status |-> "pending", result |-> "empty"]}

RECURSIVE QueueAll(_, _)
QueueAll(cv, ts) ==
    IF ts = {} THEN cv
    ELSE QueueAll(_queue_cross_validation(cv, Min(ts)), ts \ {Min(ts)})


\* variant: completed_count > text.required_annotations
ThresholdReached_strict(completed_count, required) == completed_count > required

\* completed_count >= text.required_annotations
ThresholdReached(completed_count, required) == completed_count >= required

\* the session does not autoflush: the count of an imported text is taken on
\* the rows flushed so far, which leaves out the task added for that text
ImportedReached(flushed, t, required) == ThresholdReached(SubmittedCount(flushed, t), required)

\* an unknown category is answered 404 and an empty batch 400: nothing commits
import_texts(a, c, required, items) ==
    /\ Committed
    /\ c \in Categories
    /\ Len(items) # 0
    /\ LET n0 == Len(texts)
             k == Len(items)
             annotated == {i \in 1 .. k : items[i]}
         IN /\ n0 + k <= MaxTexts
            /\ texts' = texts \o
                   [i \in 1 .. k |->
                       [category_id |-> c,
                        required_annotations |-> required,
                        state |-> IF items[i] /\ ImportedReached(tasks, n0 + i, required)
                                  THEN "awaiting_cross_validation"
                                  ELSE "pending",
                        locked_by_id |-> NULL,
                        locked_at |-> NULL]]
            /\ tasks' = tasks \cup
                   {[id |-> NextId(tasks) + AnnotatedBefore(items, i),
                     text_id |-> n0 + i,
                     annotator_id |-> a,
                     status |-> "submitted",
                     updated_at |-> now] : i \in annotated}
            /\ annotations' = annotations \cup
                   {[id |-> seqs.annotations + 1 + AnnotatedBefore(items, i),
                     text_id |-> n0 + i,
                     author_id |-> a,
                     start_token |-> 0,
                     end_token |-> 0,
                     replacement |-> Some("x"),
                     error_type_id |-> 1,
                     operation |-> "replace",
                     after_tokens |-> << [text |-> "x", origin |-> "base"] >>,
                     text_sha256 |-> NULL,
                     version |-> 1] : i \in annotated}
            /\ seqs' = [seqs EXCEPT !.annotations = @ + Cardinality(annotated)]
            /\ cvResults' = QueueAll(cvResults,
                   {n0 + i : i \in {j \in annotated : ImportedReached(tasks, n0 + j, required)}})
            /\ UNCHANGED << skipped, versions, errorTypes, now, txs, saveTxs, rend, submitTxs >>

\* --------------------------------------- POST /api/texts/assignments/next
\* release expired locks: locked_at < now - LOCK_DURATION
LockExpired(locked_at) == locked_at # NULL /\ Val(locked_at) < now - LOCK_DURATION

ReleaseExpired(ts) ==
    [i \in DOMAIN ts |->
        IF LockExpired(ts[i].locked_at)
        THEN [ts[i] EXCEPT !.locked_by_id = NULL, !.locked_at = NULL]
        ELSE ts[i]]

skipped_subquery(a) == {s.text_id : s \in {r \in skipped : r.annotator_id = a}}
any_task_for_user(tk, a) == {k.text_id : k \in {r \in tk : r.annotator_id = a}}
submitted_subquery(tk, a) ==
    {k.text_id : k \in {r \in tk : r.annotator_id = a /\ r.status = "submitted"}}
terminal_texts_subq(tk) == {k.text_id : k \in {r \in tk : r.status \in terminal_statuses}}

\* variant: the caller's tasks whatever their status
existing_task_rows_any(ts, tk, a, c) ==
    {k \in tk :
        /\ k.annotator_id = a
        /\ ts[k.text_id].category_id = c
        /\ ts[k.text_id].state \in {"pending", "in_annotation"}
        /\ k.text_id \notin skipped_subquery(a)}

\* the caller's open tasks on texts of the category that can be served again
existing_task_rows(ts, tk, a, c) ==
    {k \in tk :
        /\ k.annotator_id = a
        /\ k.status \notin terminal_statuses
        /\ ts[k.text_id].category_id = c
        /\ ts[k.text_id].state \in {"pending", "in_annotation"}
        /\ k.text_id \notin skipped_subquery(a)
        /\ k.text_id \notin terminal_texts_subq(tk)}

\* variant: ORDER BY updated_at ASC, id ASC ... first()
FirstTask_oldest(rows) ==
    CHOOSE k \in rows : \A j \in rows :
        \/ j.id = k.id
        \/ k.updated_at < j.updated_at
        \/ (k.updated_at = j.updated_at /\ k.id < j.id)

\* ORDER BY updated_at DESC, id DESC ... first()
FirstTask(rows) ==
    CHOOSE k \in rows : \A j \in rows :
        \/ j.id = k.id
        \/ k.updated_at > j.updated_at
        \/ (k.updated_at = j.updated_at /\ k.id > j.id)

\* variant: the candidate query without the terminal-task filter and without
\* the submitted-count filter
candidate_texts_uncounted(ts, tk, a, c) ==
    {i \in DOMAIN ts :
        /\ ts[i].category_id = c
        /\ ts[i].state \in {"pending", "in_annotation"}
        /\ i \notin skipped_subquery(a)
        /\ i \notin any_task_for_user(tk, a)
        /\ i \notin submitted_subquery(tk, a)
        /\ (ts[i].locked_by_id = NULL \/ ts[i].locked_by_id = Some(a))}

\* variant: the candidate query without the filter on the caller's flags
candidate_texts_unflagged(ts, tk, a, c) ==
    {i \in DOMAIN ts :
        /\ ts[i].category_id = c
        /\ ts[i].state \in {"pending", "in_annotation"}
        /\ i \notin any_task_for_user(tk, a)
        /\ i \notin submitted_subquery(tk, a)
        /\ i \notin terminal_texts_subq(tk)
        /\ (ts[i].locked_by_id = NULL \/ ts[i].locked_by_id = Some(a))
        /\ SubmittedCount(tk, i) < ts[i].required_annotations}

\* the texts of the category the caller can be newly assigned
candidate_texts(ts, tk, a, c) ==
    {i \in DOMAIN ts :
        /\ ts[i].category_id = c
        /\ ts[i].state \in {"pending", "in_annotation"}
        /\ i \notin skipped_subquery(a)
        /\ i \notin any_task_for_user(tk, a)
        /\ i \notin submitted_subquery(tk, a)
        /\ i \notin terminal_texts_subq(tk)
        /\ (ts[i].locked_by_id = NULL \/ ts[i].locked_by_id = Some(a))
        /\ SubmittedCount(tk, i) < ts[i].required_annotations}

\* variant: the assignment without the lock timestamp
Assign_untimed(ts, t, a) ==
    [ts EXCEPT ![t] = [@ EXCEPT !.locked_by_id = Some(a),
                                !.state = "in_annotation"]]

\* text.locked_by_id, text.locked_at, text.state of the served text
Assign(ts, t, a) ==
    [ts EXCEPT ![t] = [@ EXCEPT !.locked_by_id = Some(a),
                                !.locked_at = Some(now),
                                !.state = "in_annotation"]]

\* a 404 is raised before the commit: the session is closed and the sweep of
\* the call is rolled back with it
NotFound(ts, tk, swept) == [status |-> 404, text |-> 0, texts |-> ts, tasks |-> tk]

\* the response (status, text) of a call on the tables ts, tk and the tables
\* the call commits
NextTextOutcome(ts, tk, a, c) ==
    IF c \notin Categories
    THEN [status |-> 404, text |-> 0, texts |-> ts, tasks |-> tk]
    ELSE LET swept == ReleaseExpired(ts)
             rows == existing_task_rows(swept, tk, a, c)
             cands == candidate_texts(swept, tk, a, c)
         IN IF rows # {}
            THEN LET task == FirstTask(rows)
                 IN [status |-> 200,
                     text |-> task.text_id,
                     texts |-> Assign(swept, task.text_id, a),
                     tasks |-> {IF k.id = task.id /\ k.status # "in_progress"
                                THEN [k EXCEPT !.status = "in_progress", !.updated_at = now]
                                ELSE k : k \in tk}]
            ELSE IF cands = {}
            THEN NotFound(ts, tk, swept)
            ELSE LET t == Min(cands)
                 IN [status |-> 200,
                     text |-> t,
                     texts |-> Assign(swept, t, a),
                     tasks |-> IF TaskOf(tk, t, a) = {}
                               THEN tk \cup {[id |-> NextId(tk),
                                              text_id |-> t,
                                              annotator_id |-> a,
                                              status |-> "in_progress",
                                              updated_at |-> now]}
                               ELSE tk]

get_next_text(a, c) ==
    LET out == NextTextOutcome(texts, tasks, a, c)
    IN /\ Committed
       /\ out.status = 200
       /\ texts' = out.texts
       /\ tasks' = out.tasks
       /\ UNCHANGED << skipped, cvResults, annotations, versions, errorTypes, now, txs, seqs, saveTxs, rend, submitTxs >>

\* ------------------------------------ POST /api/texts/{id}/annotations
\* a request carries client_version, deleted_ids and the list annotations of
\* items [id, start_token, end_token, replacement, error_type_id, operation,
\* after_tokens, text_sha256]; a token of after_tokens is [text, origin];
\* before_tokens and the move fields are the same in every request
valid_operations == {"replace", "delete", "insert", "move", "noop"}
valid_origins == {"base", "inserted"}

\* the request body parses as AnnotationPayload: operation and the origin of
\* every token are among the literals of the schema
AnnotationPayload(item) ==
    /\ item.operation \in valid_operations
    /\ \A k \in DOMAIN item.after_tokens : item.after_tokens[k].origin \in valid_origins

\* _validate_payload: the status it raises, or 200
_validate_payload(item) ==
    IF item.operation \notin valid_operations THEN 400
    ELSE IF \E k \in DOMAIN item.after_tokens : item.after_tokens[k].origin \notin valid_origins
         THEN 400
         ELSE 200

\* " ".join(texts).strip() or None, on tokens whose text has no blank
RECURSIVE JoinTexts(_)
JoinTexts(toks) ==
    IF Len(toks) = 0 THEN ""
    ELSE IF Len(toks) = 1 THEN toks[1].text
    ELSE toks[1].text \o " " \o JoinTexts(Tail(toks))

\* replacement = item.replacement, derived from after_tokens when it is None;
\* for operation noop an empty replacement becomes None
ItemReplacement(item) ==
    LET replacement == IF item.replacement # NULL THEN item.replacement
                       ELSE IF JoinTexts(item.after_tokens) = "" THEN NULL
                       ELSE Some(JoinTexts(item.after_tokens))
    IN IF item.operation = "noop" /\ replacement = Some("") THEN NULL ELSE replacement

\* _payload_signature, on the fields that vary
_payload_signature(operation, after_tokens) == << operation, after_tokens >>

\* variant: no candidate ever matches
_annotation_matches_never(candidate, expected_sig, expected_replacement, expected_error_type) ==
    FALSE

_annotation_matches(candidate, expected_sig, expected_replacement, expected_error_type) ==
    /\ candidate.replacement = expected_replacement
    /\ candidate.error_type_id = expected_error_type
    /\ _payload_signature(candidate.operation, candidate.after_tokens) = expected_sig

\* the ids of a set of rows, ascending
RECURSIVE SortedIds(_)
SortedIds(ids) == IF ids = {} THEN << >> ELSE << Min(ids) >> \o SortedIds(ids \ {Min(ids)})

\* existing_by_span: of the caller's rows on one span the dictionary keeps the
\* one the query returned last; the query has no ORDER BY
SpanIndex(rows, pick) ==
    [sp \in {<< r.start_token, r.end_token >> : r \in rows} |->
        LET ids == {r.id : r \in {q \in rows : << q.start_token, q.end_token >> = sp}}
        IN IF pick = "lowest" THEN Min(ids) ELSE Max(ids)]

\* variant: the version is left as it was
Overwritten_unversioned(row, item, t, a) ==
    [row EXCEPT !.author_id = a,
                !.start_token = item.start_token,
                !.end_token = item.end_token,
                !.replacement = ItemReplacement(item),
                !.error_type_id = item.error_type_id,
                !.operation = item.operation,
                !.after_tokens = item.after_tokens,
                !.text_sha256 = IF item.text_sha256 # NULL THEN item.text_sha256
                                ELSE Some(_sha256_text(t))]

\* variant: the item's own text_sha256 is stored, present or not
Overwritten_ownhash(row, item, t, a) ==
    [row EXCEPT !.author_id = a,
                !.start_token = item.start_token,
                !.end_token = item.end_token,
                !.replacement = ItemReplacement(item),
                !.error_type_id = item.error_type_id,
                !.operation = item.operation,
                !.after_tokens = item.after_tokens,
                !.text_sha256 = item.text_sha256,
                !.version = @ + 1]

\* annotation.start_token = ..., annotation.version += 1
Overwritten(row, item, t, a) ==
    [row EXCEPT !.author_id = a,
                !.start_token = item.start_token,
                !.end_token = item.end_token,
                !.replacement = ItemReplacement(item),
                !.error_type_id = item.error_type_id,
                !.operation = item.operation,
                !.after_tokens = item.after_tokens,
                !.text_sha256 = IF item.text_sha256 # NULL THEN item.text_sha256
                                ELSE Some(_sha256_text(t)),
                !.version = @ + 1]

\* Annotation(text_id=..., ...): a new row, version 1 by the column default
Inserted(id, item, t, a) ==
    [id |-> id,
     text_id |-> t,
     author_id |-> a,
     start_token |-> item.start_token,
     end_token |-> item.end_token,
     replacement |-> ItemReplacement(item),
     error_type_id |-> item.error_type_id,
     operation |-> item.operation,
     after_tokens |-> item.after_tokens,
     text_sha256 |-> IF item.text_sha256 # NULL THEN item.text_sha256
                     ELSE Some(_sha256_text(t)),
     version |-> 1]

\* one turn of the loop over request.annotations. st holds the objects of the
\* session (rows, by id), the dictionaries existing_by_id (byId) and
\* existing_by_span (bySpan), the rows of other authors as they were loaded
\* (others), the list saved, the next id of the sequence and the status
ApplyItem(st, item, t, a, deleted_ids) ==
    LET span == << item.start_token, item.end_token >>
        replacement == ItemReplacement(item)
        sig == _payload_signature(item.operation, item.after_tokens)
        own == IF item.id # NULL /\ Val(item.id) \in st.byId THEN item.id
               ELSE IF span \in DOMAIN st.bySpan THEN Some(st.bySpan[span])
               ELSE NULL
        byOtherId == IF item.id # NULL /\ Val(item.id) \in {r.id : r \in st.others}
                     THEN item.id ELSE NULL
        candidates == SortedIds({r.id : r \in {q \in st.others :
                                     << q.start_token, q.end_token >> = span}})
        match == \E k \in DOMAIN candidates :
                     _annotation_matches(st.rows[candidates[k]], sig, replacement, item.error_type_id)
        other_annotation == IF byOtherId # NULL THEN byOtherId
                            ELSE IF Len(candidates) > 0 THEN Some(candidates[1])
                            ELSE NULL
    IN IF item.id # NULL /\ Val(item.id) \in deleted_ids THEN st
       ELSE IF _validate_payload(item) # 200 THEN [st EXCEPT !.status = _validate_payload(item)]
       ELSE IF item.text_sha256 # NULL /\ Val(item.text_sha256) # _sha256_text(t)
            THEN [st EXCEPT !.status = 409]
       ELSE IF own # NULL
            THEN [st EXCEPT !.rows[Val(own)] = Overwritten(@, item, t, a),
                            !.saved = Append(@, Val(own))]
       ELSE IF byOtherId = NULL /\ Len(candidates) > 0 /\ match THEN st
       ELSE IF other_annotation # NULL
            THEN IF _annotation_matches(st.rows[Val(other_annotation)], sig, replacement,
                                        item.error_type_id)
                 THEN st
                 ELSE [st EXCEPT !.rows[Val(other_annotation)] = Overwritten(@, item, t, a),
                                 !.byId = @ \cup {Val(other_annotation)},
                                 !.bySpan = (span :> Val(other_annotation)) @@ @,
                                 !.saved = Append(@, Val(other_annotation))]
       ELSE [st EXCEPT !.rows = (st.next :> Inserted(st.next, item, t, a)) @@ @,
                       !.saved = Append(@, st.next),
                       !.next = @ + 1]

RECURSIVE ApplyItems(_, _, _, _, _, _)
ApplyItems(st, items, i, t, a, deleted_ids) ==
    IF i > Len(items) \/ st.status # 200 THEN st
    ELSE ApplyItems(ApplyItem(st, items[i], t, a, deleted_ids), items, i + 1, t, a, deleted_ids)

\* variant: what the transaction has deleted stays deleted
Rejected_kept(status, anns, vers, sq, anns1, vers1) ==
    [status |-> status, annotations |-> anns1, versions |-> vers1, seqs |-> sq, saved |-> << >>]

\* the request answered with status and nothing committed: the HTTPException
\* leaves the handler before db.commit() and the session is closed, so the
\* tables anns1, vers1 of the transaction are dropped
Rejected(status, anns, vers, sq, anns1, vers1) ==
    [status |-> status, annotations |-> anns, versions |-> vers, seqs |-> sq, saved |-> << >>]

\* variant: a request with deleted_ids deletes every annotation of the text
Deleted_text(anns, t, deleted_ids) ==
    IF deleted_ids = {} THEN {} ELSE {r \in anns : r.text_id = t}

\* variant: only rows of the first annotator are deleted
Deleted_owned(anns, t, deleted_ids) ==
    {r \in anns : r.text_id = t /\ r.id \in deleted_ids /\ r.author_id = 1}

\* variant: the rows named are deleted on whatever text they are
Deleted_anytext(anns, t, deleted_ids) == {r \in anns : r.id \in deleted_ids}

\* variant: nothing is deleted
Deleted_none(anns, t, deleted_ids) == {}

\* the rows of the bulk delete: the annotations of the text, of any author,
\* whose id is in deleted_ids
Deleted(anns, t, deleted_ids) == {r \in anns : r.text_id = t /\ r.id \in deleted_ids}

\* variant: one more than the maximum of the versions
server_version_next(anns, t, a) ==
    LET existing == {r \in anns : r.text_id = t /\ r.author_id = a}
    IN IF existing = {} THEN 0 ELSE Max({r.version : r \in existing}) + 1

\* variant: the minimum of the versions
server_version_min(anns, t, a) ==
    LET existing == {r \in anns : r.text_id = t /\ r.author_id = a}
    IN IF existing = {} THEN 0 ELSE Min({r.version : r \in existing})

\* server_version = max((ann.version for ann in existing), default=0)
server_version(anns, t, a) ==
    LET existing == {r \in anns : r.text_id = t /\ r.author_id = a}
    IN IF existing = {} THEN 0 ELSE Max({r.version : r \in existing})

\* the snapshot rows of the list saved, taken after the loop
SnapshotRows(st, sq) ==
    {[id |-> sq.versions + k,
      annotation_id |-> st.saved[k],
      version |-> st.rows[st.saved[k]].version,
      start_token |-> st.rows[st.saved[k]].start_token,
      end_token |-> st.rows[st.saved[k]].end_token,
      replacement |-> st.rows[st.saved[k]].replacement,
      error_type_id |-> st.rows[st.saved[k]].error_type_id,
      operation |-> st.rows[st.saved[k]].operation,
      after_tokens |-> st.rows[st.saved[k]].after_tokens,
      text_sha256 |-> st.rows[st.saved[k]].text_sha256] : k \in DOMAIN st.saved}

\* the response (status, saved) of a save on the tables anns, vers and the
\* tables it commits; deleting an annotation deletes its versions (ON DELETE
\* CASCADE)
SaveOutcome(anns, vers, sq, t, a, req, pick) ==
    IF \E k \in DOMAIN req.annotations : ~AnnotationPayload(req.annotations[k])
    THEN Rejected(422, anns, vers, sq, anns, vers)
    ELSE IF t \notin TextIds THEN Rejected(404, anns, vers, sq, anns, vers)
    ELSE IF req.client_version # 0 /\ req.client_version < server_version(anns, t, a)
    THEN Rejected(409, anns, vers, sq, anns, vers)
    ELSE LET deleted == Deleted(anns, t, req.deleted_ids)
             anns1 == anns \ deleted
             vers1 == {v \in vers : v.annotation_id \notin {r.id : r \in deleted}}
             onText == {r \in anns1 : r.text_id = t}
             existing == {r \in onText : r.author_id = a}
             st == ApplyItems([status |-> 200,
                               rows |-> [i \in {r.id : r \in onText} |->
                                            CHOOSE r \in onText : r.id = i],
                               byId |-> {r.id : r \in existing},
                               bySpan |-> SpanIndex(existing, pick),
                               others |-> onText \ existing,
                               saved |-> << >>,
                               next |-> sq.annotations + 1],
                              req.annotations, 1, t, a, req.deleted_ids)
         IN IF st.status # 200 THEN Rejected(st.status, anns, vers, sq, anns1, vers1)
            ELSE [status |-> 200,
                  annotations |-> (anns1 \ onText) \cup {st.rows[i] : i \in DOMAIN st.rows},
                  versions |-> vers1 \cup SnapshotRows(st, sq),
                  seqs |-> [annotations |-> st.next - 1,
                            versions |-> sq.versions + Len(st.saved)],
                  saved |-> [k \in DOMAIN st.saved |-> st.rows[st.saved[k]]]]

\* the requests of the model: one content per token, the hash of the text
Spans == {<< 0, 0 >>, << 1, 1 >>}
Contents == {"x", "y"}
AnnotationIds == 1 .. MaxAnnotations
Token(c, o) == [text |-> c, origin |-> o]
Item(id, span, c, t) ==
    [id |-> id,
     start_token |-> span[1],
     end_token |-> span[2],
     replacement |-> Some(c),
     error_type_id |-> 1,
     operation |-> "replace",
     after_tokens |-> << Token(c, "base") >>,
     text_sha256 |-> Some(_sha256_text(t))]
Items(t) ==
    {Item(id, span, c, t) : id \in {NULL} \cup {Some(i) : i \in AnnotationIds},
                            span \in Spans, c \in Contents}
Batches(items) == UNION {[1 .. n -> items] : n \in 0 .. MaxBatch}
\* batches of at most one item
ShortBatches(t) == {<< >>} \cup {<< i >> : i \in Items(t)}
Picks == {"lowest", "highest"}
\* the order of the query matters only when two rows of the caller share a span
PicksFor(anns, t, a) ==
    IF \E r, q \in anns :
           /\ r.id # q.id
           /\ r.text_id = t /\ q.text_id = t
           /\ r.author_id = a /\ q.author_id = a
           /\ r.start_token = q.start_token /\ r.end_token = q.end_token
    THEN Picks
    ELSE {"lowest"}

save_annotations(t, a, req, pick) ==
    LET out == SaveOutcome(annotations, versions, seqs, t, a, req, pick)
    IN /\ Committed
       /\ steps < MaxSaveSteps
       /\ out.status = 200
       /\ out.seqs.annotations <= MaxAnnotations
       /\ annotations' = out.annotations
       /\ versions' = out.versions
       /\ seqs' = out.seqs
       /\ UNCHANGED << texts, tasks, skipped, cvResults, errorTypes, now, txs, saveTxs, rend, submitTxs >>

\* ------------------------------------------- POST /api/texts/{id}/submit
_get_or_create_noop_error_type(ets) ==
    IF \E i \in DOMAIN ets : ets[i] = "noop" THEN ets ELSE Append(ets, "noop")
NoopErrorTypeId(ets) == CHOOSE i \in DOMAIN ets : ets[i] = "noop"

\* an unknown text is answered 404: nothing commits
submit_annotations(t, a) ==
    /\ Committed
    /\ t \in TextIds
    /\ LET tasks1 ==
                 IF TaskOf(tasks, t, a) = {}
                 THEN tasks \cup {[id |-> NextId(tasks),
                                   text_id |-> t,
                                   annotator_id |-> a,
                                   status |-> "submitted",
                                   updated_at |-> now]}
                 ELSE {IF k.text_id = t /\ k.annotator_id = a
                       THEN [k EXCEPT !.status = "submitted", !.updated_at = now]
                       ELSE k : k \in tasks}
             missing == AnnotationsOf(t, a) = {}
             ets1 == IF missing THEN _get_or_create_noop_error_type(errorTypes) ELSE errorTypes
             annId == seqs.annotations + 1
             completed_count == SubmittedCount(tasks1, t)
             done == ThresholdReached(completed_count, texts[t].required_annotations)
         IN /\ tasks' = tasks1
            /\ skipped' = {s \in skipped : ~(s.text_id = t /\ s.annotator_id = a)}
            /\ errorTypes' = ets1
            /\ annotations' =
                   IF missing
                   THEN annotations \cup {[id |-> annId,
                                           text_id |-> t,
                                           author_id |-> a,
                                           start_token |-> -1,
                                           end_token |-> -1,
                                           replacement |-> NULL,
                                           error_type_id |-> NoopErrorTypeId(ets1),
                                           operation |-> "noop",
                                           after_tokens |-> << >>,
                                           text_sha256 |-> Some(_sha256_text(t)),
                                           version |-> 1]}
                   ELSE annotations
            /\ versions' =
                   IF missing
                   THEN versions \cup {[id |-> seqs.versions + 1,
                                        annotation_id |-> annId,
                                        version |-> 1,
                                        start_token |-> -1,
                                        end_token |-> -1,
                                        replacement |-> NULL,
                                        error_type_id |-> NoopErrorTypeId(ets1),
                                        operation |-> "noop",
                                        after_tokens |-> << >>,
                                        text_sha256 |-> Some(_sha256_text(t))]}
                   ELSE versions
            /\ seqs' = IF missing
                       THEN [annotations |-> seqs.annotations + 1, versions |-> seqs.versions + 1]
                       ELSE seqs
            /\ texts' = [texts EXCEPT ![t] =
                   [@ EXCEPT !.locked_by_id = NULL,
                             !.locked_at = NULL,
                             !.state = IF done THEN "awaiting_cross_validation" ELSE "pending"]]
            /\ cvResults' = IF done THEN _queue_cross_validation(cvResults, t) ELSE cvResults
            /\ UNCHANGED << now, txs, saveTxs, rend, submitTxs >>

\* ------------------------------------- POST /api/texts/{id}/skip | trash
\* variant: the flag rows of the other type are kept
_flag_text_keeping(t, flag_type, a) ==
    /\ Committed
    /\ t \in TextIds
    /\ skipped' = skipped \cup {[text_id |-> t, annotator_id |-> a, flag_type |-> flag_type]}
    /\ tasks' = {IF k.text_id = t /\ k.annotator_id = a
                 THEN [k EXCEPT !.status = flag_type, !.updated_at = now]
                 ELSE k : k \in tasks}
    /\ texts' = [texts EXCEPT ![t] =
           [@ EXCEPT !.locked_by_id = NULL,
                     !.locked_at = NULL,
                     !.state = IF flag_type = "trash" THEN "trash" ELSE "skipped"]]
    /\ UNCHANGED << cvResults, annotations, versions, errorTypes, now, txs, seqs, saveTxs, rend, submitTxs >>

\* an unknown text is answered 404: nothing commits
_flag_text(t, flag_type, a) ==
    /\ Committed
    /\ t \in TextIds
    /\ skipped' = {s \in skipped : ~(s.text_id = t /\ s.annotator_id = a)}
                  \cup {[text_id |-> t, annotator_id |-> a, flag_type |-> flag_type]}
    /\ tasks' = {IF k.text_id = t /\ k.annotator_id = a
                 THEN [k EXCEPT !.status = flag_type, !.updated_at = now]
                 ELSE k : k \in tasks}
    /\ texts' = [texts EXCEPT ![t] =
           [@ EXCEPT !.locked_by_id = NULL,
                     !.locked_at = NULL,
                     !.state = IF flag_type = "trash" THEN "trash" ELSE "skipped"]]
    /\ UNCHANGED << cvResults, annotations, versions, errorTypes, now, txs, seqs, saveTxs, rend, submitTxs >>

\* ----------------------------------- DELETE /api/texts/{id}/skip | trash
_clear_flag(t, flag_type, a) ==
    LET skip == {s \in skipped : s.text_id = t /\ s.annotator_id = a /\ s.flag_type = flag_type}
        remaining == Cardinality({s \in skipped : s.text_id = t /\ s.flag_type = "skip"})
    IN /\ Committed
       /\ skip # {}
       /\ skipped' = skipped \ skip
       /\ texts' = IF t \in TextIds /\ (flag_type = "trash" \/ remaining = 1)
                   THEN [texts EXCEPT ![t].state = "pending"]
                   ELSE texts
       /\ UNCHANGED << tasks, cvResults, annotations, versions, errorTypes, now, txs, seqs, saveTxs, rend, submitTxs >>

Next ==
    \/ Tick
    \/ \E a \in Annotators, c \in CategoryIds, r \in 1 .. MaxRequired, items \in ImportBatches :
          import_texts(a, c, r, items)
    \/ \E a \in Annotators, c \in CategoryIds : get_next_text(a, c)
    \/ \E a \in Annotators, t \in RequestTextIds : submit_annotations(t, a)
    \/ \E a \in Annotators, t \in RequestTextIds, f \in {"skip", "trash"} : _flag_text(t, f, a)
    \/ \E a \in Annotators, t \in RequestTextIds, f \in {"skip", "trash"} : _clear_flag(t, f, a)

Spec == Init /\ [][Next]_vars

\* ------------------------- get_next_text as a READ COMMITTED transaction
\* variant: a SELECT that takes and honours no row lock
LockedByOthers_none(a) == {}

\* rows another transaction in flight holds a row lock on
LockedByOthers(a) == UNION {txs[b].locks : b \in Annotators \ {a}}

\* the texts table as the transaction of a sees it: the committed rows and
\* its own uncommitted sweep
View(a) ==
    [i \in DOMAIN texts |->
        IF i \in txs[a].swept
        THEN [texts[i] EXCEPT !.locked_by_id = NULL, !.locked_at = NULL]
        ELSE texts[i]]

\* UPDATE texts SET locked_by_id = NULL, locked_at = NULL WHERE locked_at < ...:
\* the statement waits for the row locks of other transactions and holds its
\* own until the transaction ends
next_sweep(a, c) ==
    LET expired == {t \in TextIds : LockExpired(texts[t].locked_at)}
    IN /\ txs[a].pc = "idle"
       /\ c \in Categories
       /\ expired \cap LockedByOthers(a) = {}
       /\ txs' = [txs EXCEPT ![a] =
              [pc |-> "swept", cat |-> c, locks |-> expired, swept |-> expired, chosen |-> 0,
               fresh |-> ~\E k \in tasks : k.annotator_id = a /\ texts[k.text_id].category_id = c,
               overlap |-> {}]]
       /\ UNCHANGED << dbvars, now, steps, seqs, saveTxs, rend, submitTxs >>

\* existing_task_row = ... .with_for_update(skip_locked=True).first()
next_existing(a) ==
    LET rows == {k \in existing_task_rows(View(a), tasks, a, txs[a].cat) :
                    k.text_id \notin LockedByOthers(a)}
    IN /\ txs[a].pc = "swept"
       /\ txs' = [txs EXCEPT ![a] =
              IF rows # {}
              THEN [@ EXCEPT !.pc = "chosen",
                             !.chosen = FirstTask(rows).text_id,
                             !.locks = @ \cup {FirstTask(rows).text_id}]
              ELSE [@ EXCEPT !.pc = "select"]]
       /\ UNCHANGED << dbvars, now, steps, seqs, saveTxs, rend, submitTxs >>

\* text = db.execute(stmt ... .with_for_update(skip_locked=True)).scalars().first():
\* the statement locks every row it returns; without a row the 404 rolls the
\* transaction back
next_select(a) ==
    LET cands == candidate_texts(View(a), tasks, a, txs[a].cat) \ LockedByOthers(a)
    IN /\ txs[a].pc = "select"
       /\ txs' = [txs EXCEPT ![a] =
              IF cands # {}
              THEN [@ EXCEPT !.pc = "chosen", !.chosen = Min(cands), !.locks = @ \cup cands]
              ELSE IdleTx]
       /\ UNCHANGED << dbvars, now, steps, seqs, saveTxs, rend, submitTxs >>

\* the assignment, the task row and db.commit()
next_commit(a) ==
    LET t == txs[a].chosen
    IN /\ txs[a].pc = "chosen"
       /\ texts' = Assign(View(a), t, a)
       /\ tasks' = IF TaskOf(tasks, t, a) = {}
                   THEN tasks \cup {[id |-> NextId(tasks),
                                     text_id |-> t,
                                     annotator_id |-> a,
                                     status |-> "in_progress",
                                     updated_at |-> now]}
                   ELSE tasks
       /\ txs' = [b \in Annotators |->
              IF b = a THEN IdleTx
              ELSE IF txs[b].pc # "idle" /\ txs[a].fresh
                   THEN [txs[b] EXCEPT !.overlap = @ \cup {t}]
                   ELSE txs[b]]
       /\ UNCHANGED << skipped, cvResults, annotations, versions, errorTypes, now, steps, seqs, saveTxs, rend, submitTxs >>

NextTx ==
    \/ Tick
    \/ \E a \in Annotators, c \in CategoryIds, r \in 1 .. MaxRequired, items \in ImportBatches :
          import_texts(a, c, r, items)
    \/ \E a \in Annotators, c \in CategoryIds : next_sweep(a, c)
    \/ \E a \in Annotators : next_existing(a)
    \/ \E a \in Annotators : next_select(a)
    \/ \E a \in Annotators : next_commit(a)

SpecTx == Init /\ [][NextTx]_vars

\* ------------------------------------------------ saves after imports
\* texts are imported one at a time, into one category
NextSave ==
    \/ \E a \in Annotators, items \in {b \in ImportBatches : Len(b) = 1} :
          steps < MaxSaveSteps /\ import_texts(a, NumCategories, MaxRequired, items)
    \/ \E a \in Annotators, t \in RequestTextIds :
          \E cv \in 0 .. MaxClientVersion, d \in SUBSET AnnotationIds,
             items \in Batches(Items(t)), pick \in PicksFor(annotations, t, a) :
             save_annotations(t, a, [client_version |-> cv, deleted_ids |-> d, annotations |-> items], pick)

SpecSave == Init /\ [][NextSave]_vars

\* --------------------------------- saves as READ COMMITTED transactions
\* the queries and the loop of the handler (texts.py:371-601) on the rows
\* committed at that time: what the session then holds, unflushed
save_read(c, a, t, req, pick) ==
    LET out == SaveOutcome(annotations, versions, seqs, t, a, req, pick)
    IN /\ saveTxs[c].pc = "idle"
       /\ Committed
       /\ steps < MaxSaveSteps
       /\ out.seqs.annotations <= MaxAnnotations
       /\ saveTxs' = [saveTxs EXCEPT ![c] =
              IF out.status # 200
              THEN [IdleSave EXCEPT !.pc = "done", !.author = a, !.text = t,
                                    !.client_version = req.client_version,
                                    !.loaded = server_version(annotations, t, a),
                                    !.status = out.status]
              ELSE [pc |-> "loaded", author |-> a, text |-> t,
                    client_version |-> req.client_version,
                    loaded |-> server_version(annotations, t, a),
                    base |-> annotations,
                    rows |-> out.annotations,
                    vers |-> out.versions \ versions,
                    seq0 |-> seqs,
                    status |-> 0,
                    concurrent |-> FALSE]]
       /\ UNCHANGED << dbvars, now, txs, seqs, rend, submitTxs >>

\* the rows of the session that differ from the rows it loaded, and its new rows
UpdatedRows(tx) == {r \in tx.rows \ tx.base : r.id \in {b.id : b \in tx.base}}
InsertedRows(tx) == {r \in tx.rows : r.id \notin {b.id : b \in tx.base}}

\* UPDATE annotations SET <the columns the session changed> WHERE id = ...:
\* the other columns keep what is committed
MergedRow(tx, u, anns) ==
    LET b == CHOOSE r \in tx.base : r.id = u.id
        cur == CHOOSE r \in anns : r.id = u.id
    IN [f \in DOMAIN u |-> IF u[f] # b[f] THEN u[f] ELSE cur[f]]

\* StaleDataError: an UPDATE of the flush matches no row
StaleWrite(tx, anns) == \E u \in UpdatedRows(tx) : u.id \notin {r.id : r \in anns}

\* db.flush(), the AnnotationVersion rows and db.commit() (texts.py:603-621),
\* or the rollback and 409 of 623-638
save_commit(c) ==
    LET tx == saveTxs[c]
        shiftA == seqs.annotations - tx.seq0.annotations
        shiftV == seqs.versions - tx.seq0.versions
        others == {o \in Clients \ {c} : saveTxs[o].pc = "loaded"}
        ended(status) ==
            [o \in Clients |->
                IF o = c THEN [tx EXCEPT !.pc = "done", !.status = status,
                                         !.concurrent = @ \/ others # {}]
                ELSE IF o \in others THEN [saveTxs[o] EXCEPT !.concurrent = TRUE]
                ELSE saveTxs[o]]
    IN /\ tx.pc = "loaded"
       /\ IF StaleWrite(tx, annotations)
          THEN /\ saveTxs' = ended(409)
               /\ UNCHANGED << annotations, versions, seqs, rend, submitTxs >>
          ELSE /\ saveTxs' = ended(200)
               /\ annotations' =
                      {r \in annotations : r.id \notin {u.id : u \in UpdatedRows(tx)}}
                          \cup {MergedRow(tx, u, annotations) : u \in UpdatedRows(tx)}
                          \cup {[r EXCEPT !.id = @ + shiftA] : r \in InsertedRows(tx)}
               /\ versions' =
                      versions \cup
                          {[v EXCEPT !.id = @ + shiftV,
                                     !.annotation_id = IF @ > tx.seq0.annotations
                                                       THEN @ + shiftA ELSE @] : v \in tx.vers}
               /\ seqs' = [annotations |-> seqs.annotations + Cardinality(InsertedRows(tx)),
                           versions |-> seqs.versions + Cardinality(tx.vers)]
       /\ UNCHANGED << texts, tasks, skipped, cvResults, errorTypes, now, steps, txs, rend, submitTxs >>

\* imports, saves in flight on up to NumClients connections, and saves that
\* only delete and run from begin to commit with nothing in between
NextSaveTx ==
    \/ \E a \in Annotators, items \in {b \in ImportBatches : Len(b) = 1} :
          steps < MaxSaveSteps /\ import_texts(a, NumCategories, MaxRequired, items)
    \/ \E c \in Clients, a \in Annotators, t \in TextIds :
          \E cv \in {0, server_version(annotations, t, a)},
             items \in ShortBatches(t), pick \in PicksFor(annotations, t, a) :
             save_read(c, a, t, [client_version |-> cv, deleted_ids |-> {}, annotations |-> items], pick)
    \/ \E c \in Clients : save_commit(c)
    \/ \E a \in Annotators, t \in TextIds, d \in SUBSET AnnotationIds :
          save_annotations(t, a, [client_version |-> 0, deleted_ids |-> d, annotations |-> << >>],
                           "lowest")

SpecSaveTx == Init /\ [][NextSaveTx]_vars

\* ------------------------- submits as READ COMMITTED transactions
\* One transaction per annotator. submit_begin runs the handler up to its
\* db.flush(): the task is inserted or updated and, when the text carried a
\* lock, the UPDATE of the texts row takes its row lock until the commit.
\* submit_count is the COUNT of the submitted tasks, submit_queue the SELECT of
\* _queue_cross_validation; both see the committed rows and the rows of their
\* own transaction. submit_commit flushes the rest and commits. A skip or
\* trash of another annotator runs from its first statement to its commit
\* between two statements of a submit, when no open transaction holds the
\* lock of the texts row it updates.
OtherHolds(a, t) ==
    \E b \in Annotators \ {a} :
        submitTxs[b].pc # "idle" /\ submitTxs[b].text = t /\ submitTxs[b].held

submit_begin(a, t) ==
    /\ submitTxs[a].pc = "idle"
    /\ Committed
    /\ t \in TextIds
    /\ LET dirty == texts[t].locked_by_id # NULL \/ texts[t].locked_at # NULL
           missing == AnnotationsOf(t, a) = {}
       IN /\ dirty => ~OtherHolds(a, t)
          /\ submitTxs' = [submitTxs EXCEPT ![a] =
                 [pc |-> "flushed", text |-> t, held |-> dirty, at |-> now,
                  loaded_state |-> texts[t].state,
                  annotation_id |-> IF missing THEN seqs.annotations + 1 ELSE 0,
                  version_id |-> IF missing THEN seqs.versions + 1 ELSE 0,
                  done |-> FALSE, queued |-> "none"]]
          /\ seqs' = IF missing
                     THEN [annotations |-> seqs.annotations + 1, versions |-> seqs.versions + 1]
                     ELSE seqs
    /\ UNCHANGED << dbvars, now, txs, saveTxs, rend >>

\* the submitted tasks of the text the transaction sees: the committed ones of
\* the other annotators and its own
submit_count(a) ==
    /\ submitTxs[a].pc = "flushed"
    /\ LET t == submitTxs[a].text
           completed_count ==
               Cardinality({k \in tasks : k.text_id = t /\ k.annotator_id # a
                                          /\ k.status = "submitted"}) + 1
       IN submitTxs' = [submitTxs EXCEPT ![a] =
              [@ EXCEPT !.pc = "counted",
                        !.done = ThresholdReached(completed_count, texts[t].required_annotations)]]
    /\ UNCHANGED << dbvars, now, steps, txs, seqs, saveTxs, rend >>

submit_queue(a) ==
    /\ submitTxs[a].pc = "counted"
    /\ LET t == submitTxs[a].text
       IN submitTxs' = [submitTxs EXCEPT ![a] =
              [@ EXCEPT !.pc = "queued",
                        !.queued = IF ~submitTxs[a].done THEN "none"
                                   ELSE IF \E r \in cvResults : r.text_id = t THEN "update"
                                   ELSE "insert"]]
    /\ UNCHANGED << dbvars, now, steps, txs, seqs, saveTxs, rend >>

submit_commit(a) ==
    /\ submitTxs[a].pc = "queued"
    /\ LET tx == submitTxs[a]
           t == tx.text
           state == IF tx.done THEN "awaiting_cross_validation" ELSE "pending"
           writes_text == tx.held \/ state # tx.loaded_state
           ets1 == IF tx.annotation_id # 0
                   THEN _get_or_create_noop_error_type(errorTypes) ELSE errorTypes
       IN /\ writes_text => ~OtherHolds(a, t)
          /\ tasks' =
                 IF TaskOf(tasks, t, a) = {}
                 THEN tasks \cup {[id |-> NextId(tasks), text_id |-> t, annotator_id |-> a,
                                   status |-> "submitted", updated_at |-> tx.at]}
                 ELSE {IF k.text_id = t /\ k.annotator_id = a
                       THEN [k EXCEPT !.status = "submitted", !.updated_at = tx.at]
                       ELSE k : k \in tasks}
          /\ skipped' = {s \in skipped : ~(s.text_id = t /\ s.annotator_id = a)}
          /\ errorTypes' = ets1
          /\ annotations' =
                 IF tx.annotation_id # 0
                 THEN annotations \cup {[id |-> tx.annotation_id, text_id |-> t, author_id |-> a,
                                         start_token |-> -1, end_token |-> -1,
                                         replacement |-> NULL,
                                         error_type_id |-> NoopErrorTypeId(ets1),
                                         operation |-> "noop", after_tokens |-> << >>,
                                         text_sha256 |-> Some(_sha256_text(t)),
                                         version |-> 1]}
                 ELSE annotations
          /\ versions' =
                 IF tx.annotation_id # 0
                 THEN versions \cup {[id |-> tx.version_id, annotation_id |-> tx.annotation_id,
                                      version |-> 1, start_token |-> -1, end_token |-> -1,
                                      replacement |-> NULL,
                                      error_type_id |-> NoopErrorTypeId(ets1),
                                      operation |-> "noop", after_tokens |-> << >>,
                                      text_sha256 |-> Some(_sha256_text(t))]}
                 ELSE versions
          /\ texts' = [texts EXCEPT ![t] =
                 [@ EXCEPT !.locked_by_id = IF tx.held THEN NULL ELSE @,
                           !.locked_at = IF tx.held THEN NULL ELSE @,
                           !.state = IF state # tx.loaded_state THEN state ELSE @]]
          /\ cvResults' =
                 IF tx.queued = "insert"
                 THEN cvResults \cup {[id |-> NextId(cvResults), text_id |-> t,
                                       status |-> "pending", result |-> "empty"]}
                 ELSE IF tx.queued = "update"
                 THEN _queue_cross_validation(cvResults, t)
                 ELSE cvResults
          /\ submitTxs' = [submitTxs EXCEPT ![a] = IdleSubmit]
    /\ UNCHANGED << now, steps, txs, seqs, saveTxs, rend >>

NextSubmitTx ==
    \/ Tick
    \/ \E a \in Annotators, r \in 1 .. MaxRequired, items \in {b \in ImportBatches : Len(b) = 1} :
          import_texts(a, NumCategories, r, items)
    \/ \E a \in Annotators :
          (\A b \in Annotators : submitTxs[b].pc = "idle") /\ get_next_text(a, NumCategories)
    \/ \E a \in Annotators, t \in TextIds : submit_begin(a, t)
    \/ \E a \in Annotators : submit_count(a)
    \/ \E a \in Annotators : submit_queue(a)
    \/ \E a \in Annotators : submit_commit(a)
    \/ \E a \in Annotators, t \in TextIds, flag_type \in {"skip", "trash"} :
          submitTxs[a].pc = "idle" /\ ~OtherHolds(a, t) /\ _flag_text(t, flag_type, a)

SpecSubmitTx == Init /\ [][NextSubmitTx]_vars

\* ===================================================== rendering of a text
\* a text is a sequence of atoms: a word, a punctuation character, a blank or
\* a line break; a token is [text, kind, space_before]; indices of tokens are
\* those of the code, from 0
Blank == " "
LineBreak == "\n"
Puncts == {","}
IsSpace(ch) == ch \in {Blank, LineBreak}
KindOf(value) == IF value \in Puncts THEN "punct" ELSE "word"

\* _tokenize_to_tokens on texts without special tokens (phones, mails, urls)
RECURSIVE Tokenize(_, _, _)
Tokenize(text, tokens, had_space) ==
    IF text = << >> THEN tokens
    ELSE IF IsSpace(Head(text)) THEN Tokenize(Tail(text), tokens, TRUE)
    ELSE Tokenize(Tail(text),
                  Append(tokens, [text |-> Head(text), kind |-> KindOf(Head(text)),
                                  space_before |-> IF tokens = << >> THEN FALSE ELSE had_space]),
                  FALSE)
_tokenize_to_tokens(text) == Tokenize(text, << >>, FALSE)

\* text.split("\n")
RECURSIVE SplitLines(_, _)
SplitLines(text, line) ==
    IF text = << >> THEN << line >>
    ELSE IF Head(text) = LineBreak THEN << line >> \o SplitLines(Tail(text), << >>)
    ELSE SplitLines(Tail(text), Append(line, Head(text)))

\* _compute_line_breaks: for every line but the last, the number of tokens up
\* to its end
RECURSIVE LineBreaksOf(_, _, _)
LineBreaksOf(lines, idx, count) ==
    IF idx > Len(lines) THEN << >>
    ELSE LET c == count + Len(_tokenize_to_tokens(lines[idx]))
         IN IF idx < Len(lines) THEN << c >> \o LineBreaksOf(lines, idx + 1, c)
            ELSE << >>
_compute_line_breaks(text) ==
    IF text = << >> THEN << >> ELSE LineBreaksOf(SplitLines(text, << >>), 1, 0)

\* source_text.find(text, cursor), indices from 0, -1 when absent
RECURSIVE FindFrom(_, _, _)
FindFrom(source_text, text, cursor) ==
    IF cursor >= Len(source_text) THEN -1
    ELSE IF source_text[cursor + 1] = text THEN cursor
    ELSE FindFrom(source_text, text, cursor + 1)

\* the cursor after the white space that starts at it
RECURSIVE SkipSpace(_, _)
SkipSpace(source_text, cursor) ==
    IF cursor < Len(source_text) /\ IsSpace(source_text[cursor + 1])
    THEN SkipSpace(source_text, cursor + 1) ELSE cursor

\* _build_tokens_from_snapshot
RECURSIVE FromSnapshot(_, _, _, _, _)
FromSnapshot(snapshot, source_text, idx, cursor, tokens) ==
    IF idx > Len(snapshot) THEN tokens
    ELSE LET text == snapshot[idx]
             cursor1 == SkipSpace(source_text, cursor)
             next_index == FindFrom(source_text, text, cursor1)
             has_space == \/ cursor1 > cursor
                          \/ /\ next_index > cursor1
                             /\ \E k \in (cursor1 + 1) .. next_index : IsSpace(source_text[k])
             cursor2 == IF next_index > cursor1 THEN next_index ELSE cursor1
             cursor3 == IF next_index >= 0 THEN next_index + 1 ELSE cursor2
         IN FromSnapshot(snapshot, source_text, idx + 1, cursor3,
                         Append(tokens, [text |-> text, kind |-> KindOf(text),
                                         space_before |-> IF idx = 1 THEN FALSE ELSE has_space]))
_build_tokens_from_snapshot(snapshot, source_text) ==
    FromSnapshot(snapshot, source_text, 1, 0, << >>)

\* _resolve_tokens_snapshot_for_source: the text_tokens of the first
\* annotation that carries some, else the tokens of the source
_resolve_tokens_snapshot_for_source(source, anns) ==
    LET carrying == {k \in DOMAIN anns : anns[k].text_tokens # << >>}
    IN IF carrying # {}
       THEN _build_tokens_from_snapshot(anns[Min(carrying)].text_tokens, source)
       ELSE _tokenize_to_tokens(source)

\* _tokenize_edited_text: the words of a text, split at white space
RECURSIVE TokenizeEdited(_, _)
TokenizeEdited(text, space_before) ==
    IF text = << >> THEN << >>
    ELSE IF IsSpace(Head(text)) THEN TokenizeEdited(Tail(text), TRUE)
    ELSE << [text |-> Head(text), kind |-> KindOf(Head(text)), space_before |-> space_before] >>
             \o TokenizeEdited(Tail(text), FALSE)
_tokenize_edited_text(text) == TokenizeEdited(text, FALSE)

\* _build_tokens_from_fragments, on fragments of one word or punctuation
\* character with no space_before of their own
RECURSIVE FromFragments(_, _, _)
FromFragments(fragments, frag_index, default_first_space) ==
    IF frag_index >= Len(fragments) THEN << >>
    ELSE LET text == fragments[frag_index + 1]
             base == _tokenize_edited_text(text)
             first(tok) ==
                 LET s == IF frag_index > 0 THEN tok.kind # "punct" ELSE default_first_space
                 IN IF frag_index > 0 /\ ~s /\ tok.kind # "punct" THEN TRUE ELSE s
             built == [idx \in DOMAIN base |->
                          [base[idx] EXCEPT !.space_before = IF idx = 1 THEN first(base[idx]) ELSE @]]
         IN built \o FromFragments(fragments, frag_index + 1, default_first_space)
_build_tokens_from_fragments(fragments, fallback_text, default_first_space) ==
    FromFragments(IF fragments # << >> THEN fragments
                  ELSE IF fallback_text # << >> THEN << fallback_text >> ELSE << >>,
                  0, default_first_space)

\* _get_leading_space
_get_leading_space(tokens, index) ==
    IF index <= 0 THEN FALSE
    ELSE IF index >= Len(tokens) THEN TRUE
    ELSE tokens[index + 1].space_before

\* _build_text_from_tokens_with_breaks
RECURSIVE Repeat(_, _)
Repeat(x, n) == IF n <= 0 THEN << >> ELSE << x >> \o Repeat(x, n - 1)
RECURSIVE BuildText(_, _, _, _)
BuildText(tokens, breaks, visible_idx, at_line_start) ==
    IF tokens = << >> THEN << >>
    ELSE LET tok == Head(tokens)
             count == Cardinality({k \in DOMAIN breaks : breaks[k] = visible_idx + 1})
         IN (IF ~at_line_start /\ tok.space_before THEN << Blank >> ELSE << >>)
                \o << tok.text >> \o Repeat(LineBreak, count)
                \o BuildText(Tail(tokens), breaks, visible_idx + 1, count > 0)
_build_text_from_tokens_with_breaks(tokens, breaks) == BuildText(tokens, breaks, 0, TRUE)

\* an annotation as the renderer reads it: [id, start_token, end_token,
\* replacement, operation, before_tokens, after_tokens, text_tokens,
\* move_from, move_to, move_len]; id 0, replacement << >> and NULL move
\* fields stand for absent values
\* variant: the stored operation is taken as it is
_normalize_operation_stored(ann) == ann.operation

\* _normalize_operation
_normalize_operation(ann) ==
    IF /\ ann.operation = "noop"
       /\ (ann.before_tokens # << >> \/ ann.after_tokens # << >> \/ ann.replacement # << >>)
    THEN "replace"
    ELSE ann.operation

\* the key of sorted(): moves first, then start, end, id
SortKey(ann) ==
    << IF _normalize_operation(ann) = "move" THEN 0 ELSE 1,
       ann.start_token, ann.end_token, ann.id >>
KeyLeq(k1, k2) ==
    \/ k1[1] < k2[1]
    \/ k1[1] = k2[1] /\ k1[2] < k2[2]
    \/ k1[1] = k2[1] /\ k1[2] = k2[2] /\ k1[3] < k2[3]
    \/ k1[1] = k2[1] /\ k1[2] = k2[2] /\ k1[3] = k2[3] /\ k1[4] <= k2[4]

\* sorted() is stable: an annotation goes behind those of the same key that
\* come before it in the list
RECURSIVE SortedAnns(_)
SortedAnns(anns) ==
    IF anns = << >> THEN << >>
    ELSE LET front == SortedAnns(SubSeq(anns, 1, Len(anns) - 1))
             x == anns[Len(anns)]
             p == Cardinality({i \in DOMAIN front : KeyLeq(SortKey(front[i]), SortKey(x))})
         IN SubSeq(front, 1, p) \o << x >> \o SubSeq(front, p + 1, Len(front))

\* offset_at and clamp_index
\* variant: no offset record is consulted
offset_at_none(offset_deltas, index) == 0

RECURSIVE offset_at(_, _)
offset_at(offset_deltas, index) ==
    IF offset_deltas = << >> THEN 0
    ELSE (IF Head(offset_deltas)[1] <= index THEN Head(offset_deltas)[2] ELSE 0)
             + offset_at(Tail(offset_deltas), index)
clamp_index(working, idx) == IF idx < 0 THEN 0 ELSE IF idx > Len(working) THEN Len(working) ELSE idx

\* variant: the slice stops one token early
Slice_short(working, a, b) ==
    SubSeq(working, a + 1, (IF b > Len(working) THEN Len(working) ELSE b) - 1)

\* working[a:b], and working[a:b] = new, for 0 <= a
Slice(working, a, b) == SubSeq(working, a + 1, IF b > Len(working) THEN Len(working) ELSE b)
Spliced(working, a, b, new) ==
    SubSeq(working, 1, a) \o new \o SubSeq(working, (IF b < a THEN a ELSE b) + 1, Len(working))

\* the move branch of _apply_annotations
ApplyMove(st, ann) ==
    LET working == st.working
        start == ann.start_token
        move_from == IF ann.move_from # NULL THEN Val(ann.move_from) ELSE start
        move_to == IF ann.move_to # NULL THEN Val(ann.move_to) ELSE start
        width == ann.end_token - start + 1
        move_len == IF ann.move_len # NULL THEN Val(ann.move_len)
                    ELSE IF Len(ann.after_tokens) > 0 THEN Len(ann.after_tokens)
                    ELSE IF Len(ann.before_tokens) > 0 THEN Len(ann.before_tokens)
                    ELSE IF width > 1 THEN width ELSE 1
        source_start == clamp_index(working, move_from + offset_at(st.offset_deltas, move_from))
        reach == IF source_start + move_len - 1 < Len(working) - 1
                 THEN source_start + move_len - 1 ELSE Len(working) - 1
        source_end == IF reach > source_start THEN reach ELSE source_start
        moved == Slice(working, source_start, source_end + 1)
        rest == Spliced(working, source_start, source_end + 1, << >>)
        aimed == clamp_index(rest, move_to + offset_at(st.offset_deltas, move_to))
        insertion_index == clamp_index(rest, IF aimed > source_start THEN aimed - Len(moved)
                                             ELSE aimed)
        leading_space == _get_leading_space(rest, insertion_index)
        placed == IF moved = << >> THEN moved
                  ELSE [moved EXCEPT ![1].space_before = leading_space]
    IN [st EXCEPT !.working = Spliced(rest, insertion_index, insertion_index, placed)]

\* the replace / delete / insert branch of _apply_annotations
ApplyEdit(st, ann, operation) ==
    LET working == st.working
        start_original == ann.start_token
        end_original == IF ann.end_token = 0 THEN start_original ELSE ann.end_token
        target_start == clamp_index(working, start_original + offset_at(st.offset_deltas, start_original))
        leading_space == _get_leading_space(working, target_start)
        wanted == IF operation = "insert" THEN 0
                  ELSE IF ann.before_tokens # << >> THEN Len(ann.before_tokens)
                  ELSE IF end_original - start_original + 1 > 0
                       THEN end_original - start_original + 1 ELSE 0
        remove_count == IF target_start + wanted > Len(working)
                        THEN Len(working) - target_start ELSE wanted
        new_tokens == IF operation = "delete" THEN << >>
                      ELSE _build_tokens_from_fragments(ann.after_tokens, ann.replacement, leading_space)
    IN [working |-> Spliced(working, target_start, target_start + remove_count, new_tokens),
        offset_deltas |-> Append(st.offset_deltas,
                                 << start_original, Len(new_tokens) - remove_count >>)]

RECURSIVE ApplySorted(_, _)
ApplySorted(st, sorted_anns) ==
    IF sorted_anns = << >> THEN st
    ELSE LET ann == Head(sorted_anns)
             operation == _normalize_operation(ann)
         IN ApplySorted(IF operation = "noop" THEN st
                        ELSE IF operation = "move" THEN ApplyMove(st, ann)
                        ELSE ApplyEdit(st, ann, operation),
                        Tail(sorted_anns))

_apply_annotations(tokens, anns) ==
    ApplySorted([working |-> tokens, offset_deltas |-> << >>], SortedAnns(anns)).working

_render_corrected_text(source, anns) ==
    _build_text_from_tokens_with_breaks(
        _apply_annotations(_resolve_tokens_snapshot_for_source(source, anns), anns),
        _compute_line_breaks(source))

\* ------------------------------------------------ the inputs of a rendering
Absent == [before_tokens |-> << >>, after_tokens |-> << >>, replacement |-> << >>]
Shapes ==
    {Absent,
     [Absent EXCEPT !.after_tokens = << << "x" >> >>],
     [Absent EXCEPT !.replacement = << "y", Blank, "x" >>],
     [Absent EXCEPT !.before_tokens = << "t", "t" >>, !.after_tokens = << << "x" >>, << "," >> >>]}
RenderAnn(id, span, op, shape, snapshot, from, to, len) ==
    [id |-> id, start_token |-> span[1], end_token |-> span[2], operation |-> op,
     before_tokens |-> shape.before_tokens, after_tokens |-> shape.after_tokens,
     replacement |-> shape.replacement, text_tokens |-> snapshot,
     move_from |-> from, move_to |-> to, move_len |-> len]
RenderIds == 0 .. MaxAnnotations
EditSpans == {<< 0, 0 >>, << 1, 1 >>, << 2, 2 >>, << 0, 1 >>}
Edits ==
    {RenderAnn(id, span, op, shape, << >>, NULL, NULL, NULL) :
        id \in RenderIds, span \in EditSpans, op \in {"replace", "delete", "insert"},
        shape \in Shapes}
Snapshots == {<< >>, << "a", "b" >>, << "b" >>}
Noops ==
    {RenderAnn(id, span, "noop", shape, snapshot, NULL, NULL, NULL) :
        id \in 0 .. 1, span \in {<< -1, -1 >>, << 1, 1 >>}, shape \in Shapes,
        snapshot \in Snapshots}
MoveIndexes == {NULL} \cup {Some(i) : i \in 0 .. MaxMoveIndex}
Moves ==
    {RenderAnn(id, << 2, 2 >>, "move", Absent, << >>, from, to, len) :
        id \in 0 .. 1, from \in MoveIndexes, to \in MoveIndexes,
        len \in {NULL} \cup {Some(n) : n \in 1 .. MaxMoveLen}}
AnnLists(anns, n) == [1 .. n -> anns]

\* texts of at most MaxSourceLen atoms in which no two words touch
SourceAtoms == {"a", "b", ",", Blank, LineBreak}
IsWord(ch) == ch \notin Puncts /\ ~IsSpace(ch)
Sources ==
    {s \in UNION {[1 .. n -> SourceAtoms] : n \in 0 .. MaxSourceLen} :
        \A k \in 1 .. (Len(s) - 1) : ~(IsWord(s[k]) /\ IsWord(s[k + 1]))}
Sentence == << "a", Blank, "b", Blank, "c" >>

PlainNoops == {n \in Noops : n.id = 0 /\ n.text_tokens = << >>}
RenderRequest(source, anns) ==
    [pc |-> "request", source |-> source, anns |-> anns, tokens |-> << >>, text |-> << >>]

\* POST /api/texts/{id}/render
render_annotations ==
    /\ rend.pc = "request"
    /\ rend' = [rend EXCEPT
           !.pc = "done",
           !.tokens = _apply_annotations(
                          _resolve_tokens_snapshot_for_source(rend.source, rend.anns), rend.anns),
           !.text = _render_corrected_text(rend.source, rend.anns)]
    /\ UNCHANGED << dbvars, now, steps, txs, seqs, saveTxs, submitTxs >>

InitRender ==
    /\ InitTables
    /\ \E n \in 0 .. MaxRenderAnns :
          \/ \E l \in AnnLists(Edits \cup Noops \cup Moves, n) :
                rend = RenderRequest(Sentence, l)
          \/ \E s \in Sources, l \in AnnLists(PlainNoops, n) :
                rend = RenderRequest(s, l)
NextRender == render_annotations
SpecRender == InitRender /\ [][NextRender]_vars

\* ------------------------------------------- renderings of a single move
\* move_from, move_to and move_len absent, below 0, inside and beyond the
\* tokens of the text; the second shape gives the length when move_len is absent
WideValues == {NULL} \cup {Some(i) : i \in -1 .. MaxSourceLen + 1}
WideMoves ==
    {RenderAnn(0, << 1, 1 >>, "move", shape, << >>, from, to, len) :
        shape \in {Absent, [Absent EXCEPT !.before_tokens = << "t", "t" >>]},
        from \in WideValues, to \in WideValues, len \in WideValues}
MoveSources == {s \in Sources : \A k \in DOMAIN s : s[k] # LineBreak}

InitMove ==
    /\ InitTables
    /\ \E s \in MoveSources, move \in WideMoves : rend = RenderRequest(s, << move >>)
NextMove == render_annotations
SpecMove == InitMove /\ [][NextMove]_vars

\* ===================================================== GET /api/texts/export
\* the content import gave to text t
ContentOf(t) ==
    IF t % 2 = 1 THEN Sentence ELSE << "b", Blank, "a", ",", Blank, "c" >>

\* an annotation row as the renderer reads it
RenderView(n) ==
    RenderAnn(n.id, << n.start_token, n.end_token >>, n.operation,
              [before_tokens |-> << >>,
               after_tokens |-> [k \in DOMAIN n.after_tokens |-> << n.after_tokens[k].text >>],
               replacement |-> IF n.replacement = NULL \/ n.replacement = Some("")
                               THEN << >> ELSE << Val(n.replacement) >>],
              << >>, NULL, NULL, NULL)

\* the submitted tasks of texts that are neither trash nor skipped
ExportTasks(ts, tk) ==
    {k \in tk : k.status = "submitted" /\ ts[k.text_id].state \notin {"trash", "skipped"}}
\* variant: the task updated first comes first
Newer_reversed(j, k) ==
    j.updated_at < k.updated_at \/ (j.updated_at = k.updated_at /\ j.id < k.id)
\* order_by(updated_at.desc(), id.desc())
Newer(j, k) ==
    j.updated_at > k.updated_at \/ (j.updated_at = k.updated_at /\ j.id > k.id)
RECURSIVE Ordered(_)
Ordered(tk) ==
    IF tk = {} THEN << >>
    ELSE LET first == CHOOSE k \in tk : \A j \in tk \ {k} : Newer(k, j)
         IN  << first >> \o Ordered(tk \ {first})
RECURSIVE tasks_by_text(_, _)
\* the text ids in the order of their first task
tasks_by_text(ordered, seen) ==
    IF ordered = << >> THEN << >>
    ELSE IF Head(ordered).text_id \in seen THEN tasks_by_text(Tail(ordered), seen)
    ELSE << Head(ordered).text_id >>
             \o tasks_by_text(Tail(ordered), seen \cup {Head(ordered).text_id})
_fetch_annotations_for_tasks(anns, task) ==
    {n \in anns : n.text_id = task.text_id /\ n.author_id = task.annotator_id}
\* the query has no ORDER BY: the rows come in any order
Orderings(rows) ==
    {l \in [1 .. Cardinality(rows) -> rows] : \A j, k \in DOMAIN l : j # k => l[j] # l[k]}
ExportKeyLeq(m, n) ==
    \/ m.start_token < n.start_token
    \/ m.start_token = n.start_token /\ m.end_token < n.end_token
    \/ m.start_token = n.start_token /\ m.end_token = n.end_token /\ m.id <= n.id
RECURSIVE SortedRows(_)
SortedRows(l) ==
    IF l = << >> THEN << >>
    ELSE LET rest == SortedRows(Tail(l))
             before == SelectSeq(rest, LAMBDA n : ~ExportKeyLeq(Head(l), n))
             after == SelectSeq(rest, LAMBDA n : ExportKeyLeq(Head(l), n))
         IN  before \o << Head(l) >> \o after
_annotation_to_edit(n) ==
    [start_token |-> n.start_token, end_token |-> n.end_token,
     operation |-> _normalize_operation(RenderView(n)), replacement |-> n.replacement]
_build_export_record(t, l) ==
    [id |-> t,
     source |-> ContentOf(t),
     target |-> _render_corrected_text(ContentOf(t), [k \in DOMAIN l |-> RenderView(l[k])]),
     edits |-> [k \in DOMAIN l |-> _annotation_to_edit(SortedRows(l)[k])]]
\* the response: per exported text, in the order of the response, the records
\* the request can build for it
export_submitted_texts(ts, tk, anns) ==
    LET found == ExportTasks(ts, tk)
        ordered == Ordered(found)
        text_ids == tasks_by_text(ordered, {})
    IN  [i \in DOMAIN text_ids |->
            LET text_tasks == SelectSeq(ordered, LAMBDA k : k.text_id = text_ids[i])
            IN  {_build_export_record(text_ids[i], l) :
                    l \in Orderings(_fetch_annotations_for_tasks(anns, text_tasks[1]))}]

\* every item a new edit of the caller
NewItems(t) == {i \in Items(t) : i.id = NULL}
NextExport ==
    \/ Tick
    \/ \E a \in Annotators, items \in {b \in ImportBatches : Len(b) = 1} :
          import_texts(a, NumCategories, MaxRequired, items)
    \/ \E a \in Annotators, t \in TextIds : \E items \in Batches(NewItems(t)) :
          save_annotations(t, a, [client_version |-> server_version(annotations, t, a),
                                  deleted_ids |-> {}, annotations |-> items], "lowest")
    \/ \E a \in Annotators, t \in TextIds : submit_annotations(t, a)
    \/ \E a \in Annotators, t \in TextIds, f \in {"skip", "trash"} : _flag_text(t, f, a)
SpecExport == Init /\ [][NextExport]_vars

\* ===================================================================== claims
\* vocabulary of the claims, stated on the stored tables
Category(t) == texts[t].category_id
Required(t) == texts[t].required_annotations
Holder(t) == texts[t].locked_by_id
HasTask(a, t, statuses) == \E k \in tasks : k.text_id = t /\ k.annotator_id = a /\ k.status \in statuses
HasTerminalTask(t) == \E k \in tasks : k.text_id = t /\ k.status \in {"submitted", "skip", "trash"}
HasAnyTask(a, t) == \E k \in tasks : k.text_id = t /\ k.annotator_id = a
SkippedBy(a, t) == \E s \in skipped : s.text_id = t /\ s.annotator_id = a
Assignable(t) == texts[t].state \in {"pending", "in_annotation"}
Next_(a, c) == NextTextOutcome(texts, tasks, a, c)

\* a holds an open task on t and t can be served again (section 4.6 step 2)
Reservable(a, t) ==
    /\ HasTask(a, t, {"in_progress"})
    /\ Assignable(t)
    /\ ~SkippedBy(a, t)
    /\ ~HasTerminalTask(t)

\* t is free of a lock for a: never locked, locked by a, or locked past the TTL
FreeFor(a, t) ==
    \/ Holder(t) = NULL
    \/ Holder(t) = Some(a)
    \/ Val(texts[t].locked_at) + LOCK_DURATION < now

\* a can be newly assigned t (section 4.6 step 3, per-annotator exclusions)
NewlyAssignable(a, t) ==
    /\ Assignable(t)
    /\ ~SkippedBy(a, t)
    /\ ~HasAnyTask(a, t)
    /\ FreeFor(a, t)
    /\ SubmittedCount(tasks, t) < Required(t)

\* C1: get_next_text never returns to an annotator b, nor re-locks to b, a text
\* whose lock is held by another annotator with locked_at younger than the
\* 30-minute TTL while the holder's task on the text is not terminal.
C1_NoSecondHolder ==
    \A b \in Annotators, c \in CategoryIds :
        LET out == Next_(b, c)
        IN out.status = 200 =>
              ~ /\ Holder(out.text) # NULL
                /\ Holder(out.text) # Some(b)
                /\ now - Val(texts[out.text].locked_at) < LOCK_DURATION
                /\ HasTask(Val(Holder(out.text)), out.text, {"in_progress"})

\* C2: two get_next_text transactions of different annotators that overlap in
\* time, neither annotator having a task in the category before, never both
\* return the same text.
C2_RacersGetDistinctTexts ==
    \A a \in Annotators :
        (txs[a].pc = "chosen" /\ txs[a].fresh) =>
            /\ txs[a].chosen \notin txs[a].overlap
            /\ \A b \in Annotators \ {a} :
                  (txs[b].pc = "chosen" /\ txs[b].fresh) => txs[b].chosen # txs[a].chosen

\* a transaction has chosen its text after an overlapping transaction on the
\* same category committed another text
C2_Witness ==
    \E a \in Annotators :
        /\ txs[a].pc = "chosen" /\ txs[a].fresh
        /\ \E t \in txs[a].overlap : texts[t].category_id = txs[a].cat

\* C3: get_next_text never returns a text whose number of submitted tasks has
\* reached its required_annotations.
C3_BelowThreshold ==
    \A a \in Annotators, c \in CategoryIds :
        LET out == Next_(a, c)
        IN out.status = 200 => SubmittedCount(tasks, out.text) < Required(out.text)

\* a text at its threshold that is pending again, unlocked, and that the caller
\* has neither a task nor a flag on, is passed over for a text of a higher id
C3_Witness ==
    \E a \in Annotators, t \in TextIds :
        /\ SubmittedCount(tasks, t) >= Required(t)
        /\ Assignable(t) /\ Holder(t) = NULL
        /\ ~HasAnyTask(a, t) /\ ~SkippedBy(a, t)
        /\ Next_(a, Category(t)).status = 200
        /\ Next_(a, Category(t)).text > t

\* the post-state of a submit of t by a
SubmitPost(t, a) ==
    LET n == SubmittedCount(tasks, t)
        rows == {r \in cvResults : r.text_id = t}
    IN /\ n >= Required(t) =>
             /\ texts[t].state = "awaiting_cross_validation"
             /\ rows # {}
             /\ \A r \in rows : r.status = "pending" /\ r.result = "empty"
       /\ n < Required(t) => texts[t].state = "pending"
       /\ texts[t].locked_by_id = NULL
       /\ texts[t].locked_at = NULL
       /\ HasTask(a, t, {"submitted"})

\* C4: immediately after a successful submit of t by a: when the submitted
\* count has reached required_annotations the text is awaiting_cross_validation
\* and its CrossValidationResult is pending and empty, otherwise the text is
\* pending; the lock is cleared and a's task is submitted.
C4_SubmitCompletion ==
    [][\A t \in RequestTextIds, a \in Annotators :
          submit_annotations(t, a) => SubmitPost(t, a)']_vars

\* both outcomes of a submit, each on a text the submitter got no annotation on
C4_Witness ==
    \E t, u \in TextIds :
        /\ \E n \in annotations : n.text_id = t /\ n.operation = "noop"
        /\ texts[t].state = "awaiting_cross_validation"
        /\ \E r \in cvResults : r.text_id = t /\ r.status = "pending"
        /\ \E n \in annotations : n.text_id = u /\ n.operation = "noop"
        /\ texts[u].state = "pending"
        /\ SubmittedCount(tasks, u) < Required(u)

\* after a submit of t that left it below its threshold: t is pending, and an
\* annotator other than the submitter who has no task and no skip on t, no
\* open task in the category and no eligible lower-id text, is served t
ServedAfterSubmit(t, s) ==
    /\ texts[t].state = "pending"
    /\ \A b \in Annotators \ {s} :
          ( /\ NewlyAssignable(b, t)
            /\ \A u \in TextIds :
                  Category(u) = Category(t) =>
                      /\ ~Reservable(b, u)
                      /\ u < t => ~NewlyAssignable(b, u) )
          => Next_(b, Category(t)).text = t

\* C5: a text left below its threshold by a submission is pending and stays
\* available: a later get_next_text in its category by another annotator who
\* has no task and no skip on it, and for whom no lower-id text is eligible,
\* returns it.
C5_PendingBelowThresholdServed ==
    [][\A t \in RequestTextIds, s \in Annotators :
          (submit_annotations(t, s) /\ (SubmittedCount(tasks, t) < Required(t))')
              => ServedAfterSubmit(t, s)']_vars

OpenTasks(a, c) ==
    {k \in tasks : k.annotator_id = a /\ Category(k.text_id) = c /\ Reservable(a, k.text_id)}

\* get_next_text(c, a) serves t again: lock, state and task as section 4.6
\* step 2 says, no task row added, and a second call changes nothing more
ServedAgain(a, c, t) ==
    LET out == Next_(a, c)
        again == NextTextOutcome(out.texts, out.tasks, a, c)
    IN /\ out.status = 200
       /\ out.text = t
       /\ out.texts[t].locked_by_id = Some(a)
       /\ out.texts[t].locked_at = Some(now)
       /\ out.texts[t].state = "in_annotation"
       /\ \E k \in out.tasks : k.text_id = t /\ k.annotator_id = a /\ k.status = "in_progress"
       /\ {k.id : k \in out.tasks} = {k.id : k \in tasks}
       /\ again.status = 200
       /\ again.text = t
       /\ again.tasks = out.tasks

\* C7 as claimed: whenever a has an open task on a servable text t of the
\* category, get_next_text(category, a) serves t again.
C7_ReservesThatText ==
    \A a \in Annotators, c \in Categories :
        \A k \in OpenTasks(a, c) : ServedAgain(a, c, k.text_id)

\* C7 as amended: when a has open tasks on servable texts of the category,
\* get_next_text(category, a) serves again the text of the task with the latest
\* updated_at, the highest task id among equals.
C7_ReservesLatestTask ==
    \A a \in Annotators, c \in Categories :
        \A k \in OpenTasks(a, c) :
            (\A j \in OpenTasks(a, c) :
                \/ j.updated_at < k.updated_at
                \/ (j.updated_at = k.updated_at /\ j.id <= k.id))
            => ServedAgain(a, c, k.text_id)

\* an annotator with two open tasks on servable texts of one category
C7_Witness ==
    \E a \in Annotators, c \in Categories : Cardinality(OpenTasks(a, c)) >= 2

\* no text of category c can be served to a: neither again nor newly
NothingEligible(a, c) ==
    \A t \in TextIds :
        Category(t) = c =>
            /\ ~Reservable(a, t)
            /\ ~(NewlyAssignable(a, t) /\ ~HasTerminalTask(t))

\* C8: when no text of the category is eligible for the caller, get_next_text
\* answers 404 and leaves every text's state and every task unchanged: no task
\* row is created and no lock is taken for the caller.
C8_NothingEligibleIs404 ==
    \A a \in Annotators, c \in Categories :
        NothingEligible(a, c) =>
            LET out == Next_(a, c)
            IN /\ out.status = 404
               /\ out.tasks = tasks
               /\ \A t \in TextIds :
                     /\ out.texts[t].state = texts[t].state
                     /\ out.texts[t].locked_by_id = Some(a) => Holder(t) = Some(a)

\* a category with texts of which none is eligible for the caller, once
\* assignments have been made
C8_Witness ==
    \E a \in Annotators, c \in Categories :
        /\ \E t \in TextIds : Category(t) = c /\ Assignable(t)
        /\ \E k \in tasks : k.status = "in_progress"
        /\ NothingEligible(a, c)
        /\ Next_(a, c).status = 404

\* C9: for every text, locked_by_id and locked_at are both null or both set.
C9_LockPair ==
    \A t \in TextIds : (texts[t].locked_by_id = NULL) <=> (texts[t].locked_at = NULL)

\* a text that is locked and a text whose lock was released by its holder
C9_Witness ==
    \E t, u \in TextIds :
        /\ texts[t].locked_by_id # NULL /\ texts[t].locked_at # NULL
        /\ texts[u].locked_by_id = NULL /\ HasTerminalTask(u)

\* C10: every get_next_text call for an existing category, whatever its
\* outcome, leaves no text with a lock older than the TTL, and the sweep clears
\* no lock younger than the TTL.
C10_SweepOnEveryCall ==
    \A a \in Annotators, c \in Categories :
        LET out == Next_(a, c)
        IN \A t \in TextIds :
              /\ out.texts[t].locked_at # NULL =>
                    ~(Val(out.texts[t].locked_at) < now - LOCK_DURATION)
              /\ (Holder(t) # NULL /\ now - Val(texts[t].locked_at) < LOCK_DURATION /\ t # out.text)
                    => out.texts[t].locked_by_id = Holder(t)

\* ------------------------------------------------------- claims on save
\* the outcome of a save request on the stored tables
Save_(t, a, cv, d, items, pick) ==
    SaveOutcome(annotations, versions, seqs, t, a,
                [client_version |-> cv, deleted_ids |-> d, annotations |-> items], pick)

\* the model still runs a request in this state
CanRequest == steps < MaxSaveSteps


\* C11: a save whose client_version is nonzero and smaller than the maximum
\* version among the caller's own annotations on the text is answered 409 and
\* leaves every annotation and version row unchanged, the rows named in
\* deleted_ids included.
C11_StaleVersionRejected ==
    CanRequest =>
        \A a \in Annotators, t \in TextIds, cv \in 1 .. MaxClientVersion :
            (\E r \in annotations : r.text_id = t /\ r.author_id = a /\ cv < r.version) =>
                \A d \in SUBSET AnnotationIds, items \in ShortBatches(t), pick \in Picks :
                    LET out == Save_(t, a, cv, d, items, pick)
                    IN /\ out.status = 409
                       /\ out.annotations = annotations
                       /\ out.versions = versions

\* a caller whose annotations on a text have versions 1 and 2, one of them
\* named in deleted_ids of a request with client_version 1
C11_Witness ==
    /\ CanRequest
    /\ \E a \in Annotators, t \in TextIds :
          \E r, q \in annotations :
              /\ r.text_id = t /\ r.author_id = a /\ r.version = 1
              /\ q.text_id = t /\ q.author_id = a /\ q.version > 1
              /\ Save_(t, a, 1, {r.id}, << >>, "lowest").status = 409

\* an item without text_sha256, and an item with the hash of another content
NoHash(item) == [item EXCEPT !.text_sha256 = NULL]
StaleHash(item, t) == [item EXCEPT !.text_sha256 = Some(_sha256_text(t + 1))]

\* valid batches: one item with or without hash, or two id-less items
ValidBatches(t) ==
    ShortBatches(t)
        \cup {<< NoHash(i) >> : i \in Items(t)}
        \cup {<< i, j >> : i, j \in {k \in Items(t) : k.id = NULL}}

\* the highest version among the caller's annotations on the text, 0 if none
CurrentVersion(t, a) ==
    Max({0} \cup {r.version : r \in {x \in annotations : x.text_id = t /\ x.author_id = a}})

\* C12: a save with client_version 0 or equal to the maximum version of the
\* caller's annotations on the text, whose items are valid and carry no
\* mismatching hash, succeeds, whatever was saved before.
C12_CurrentVersionAccepted ==
    CanRequest =>
        \A a \in Annotators, t \in TextIds :
            \A cv \in {0, CurrentVersion(t, a)}, d \in SUBSET AnnotationIds,
               items \in ValidBatches(t), pick \in PicksFor(annotations, t, a) :
                Save_(t, a, cv, d, items, pick).status = 200

\* a caller whose annotations on the text have reached version 2 saves with
\* client_version 2
C12_Witness ==
    /\ CanRequest
    /\ \E a \in Annotators, t \in TextIds :
          /\ CurrentVersion(t, a) = 2
          /\ \E i \in Items(t) : Save_(t, a, 2, {}, << i >>, "lowest").status = 200

\* batches in which an item carries the hash of another content: the item
\* alone, or next to an id-less item with the right hash, on either side
StaleBatches(t) ==
    {<< StaleHash(i, t) >> : i \in Items(t)}
        \cup {<< i, StaleHash(j, t) >> : i, j \in {k \in Items(t) : k.id = NULL}}
        \cup {<< StaleHash(i, t), j >> : i, j \in {k \in Items(t) : k.id = NULL}}

\* the rows of an outcome that the save wrote: new, or different from before
Written(out) == out.annotations \ annotations

VersionOf(anns, id) ==
    IF \E r \in anns : r.id = id THEN (CHOOSE r \in anns : r.id = id).version ELSE 0

\* how many items of the batch the save wrote to annotation id
TimesSaved(out, id) == Cardinality({k \in DOMAIN out.saved : out.saved[k].id = id})

\* C14 as stated: over every step, a new annotation has version 1, an
\* annotation that a step changes has its version raised by exactly 1, and no
\* version decreases.
C14_OnePerSave ==
    [][\A r \in annotations' :
          /\ (r.id \notin {q.id : q \in annotations}) => r.version = 1
          /\ \A q \in annotations :
                q.id = r.id => /\ r.version >= q.version
                               /\ (r # q => r.version = q.version + 1)]_vars

\* what the handler does for C14: a save raises the version of an annotation
\* by 1 for each of its items that updates or adopts it, a new annotation has
\* version 1, a rejected save changes no version, and no version decreases.
C14_OnePerItem ==
    CanRequest =>
        \A a \in Annotators, t \in TextIds :
            \A cv \in {0, CurrentVersion(t, a)}, d \in SUBSET AnnotationIds,
               items \in Batches(Items(t)) \cup StaleBatches(t),
               pick \in PicksFor(annotations, t, a) :
                LET out == Save_(t, a, cv, d, items, pick)
                IN \A r \in out.annotations :
                       /\ r.version = VersionOf(annotations, r.id) + TimesSaved(out, r.id)
                       /\ r.version >= VersionOf(annotations, r.id)
                       /\ r.version >= 1
                       /\ out.status # 200 => r \in annotations

\* a row that an earlier save has raised to version 2 is matched by both
\* items of a batch and goes to version 4
C14_Witness ==
    /\ CanRequest
    /\ \E r \in annotations :
          /\ r.version = 2
          /\ \E i \in Items(r.text_id) :
                /\ i.id = Some(r.id)
                /\ VersionOf(Save_(r.text_id, r.author_id, 0, {}, << i, i >>, "lowest").annotations,
                             r.id) = 4

\* C15 as stated, its conclusion: a save appends one AnnotationVersion row for
\* each annotation it writes, so no two AnnotationVersion rows of one
\* annotation share a version.
C15_OneVersionRowPerSave ==
    \A v, w \in versions :
        (v.annotation_id = w.annotation_id /\ v.version = w.version) => v.id = w.id

\* an id-less item at the span of row r, alone or after another item
RecreateBatches(r, t) ==
    LET at == {i \in Items(t) : i.id = NULL /\ i.start_token = r.start_token
                                             /\ i.end_token = r.end_token}
    IN {<< i >> : i \in at} \cup {<< j, i >> : j \in Items(t), i \in at}

\* the save removed row r and stored the last item of the batch as a new row
\* of the caller with version 1
Recreated(out, r, a, items) ==
    LET i == items[Len(items)]
    IN /\ out.status = 200
       /\ r.id \notin {q.id : q \in out.annotations}
       /\ \E q \in out.annotations :
             /\ q.id > seqs.annotations
             /\ q.version = 1
             /\ q.author_id = a
             /\ q.start_token = i.start_token /\ q.end_token = i.end_token
             /\ q.after_tokens = i.after_tokens

IgnoredIds(items, d) ==
    {Val(items[k].id) : k \in {j \in DOMAIN items : items[j].id # NULL}} \cap d

\* the batch without the items whose id is in deleted_ids
NotIgnored(item, d) == item.id = NULL \/ Val(item.id) \notin d
RECURSIVE WithoutIgnored(_, _)
WithoutIgnored(items, d) ==
    IF items = << >> THEN << >>
    ELSE IF NotIgnored(Head(items), d) THEN << Head(items) >> \o WithoutIgnored(Tail(items), d)
    ELSE WithoutIgnored(Tail(items), d)

\* C17 as stated: an item whose id is listed in deleted_ids is ignored; after
\* the save no annotation with that id exists, none is returned, and the save
\* has the outcome of the same save without the item.
C17_DeletedItemIgnored ==
    CanRequest =>
        \A a \in Annotators, t \in TextIds :
            \A cv \in {0, CurrentVersion(t, a)}, d \in SUBSET (1 .. seqs.annotations),
               items \in Batches(Items(t)), pick \in PicksFor(annotations, t, a) :
                LET out == Save_(t, a, cv, d, items, pick)
                IN /\ out = Save_(t, a, cv, d, WithoutIgnored(items, d), pick)
                   /\ out.status = 200 =>
                         \A r \in out.annotations : r.id \notin IgnoredIds(items, d)

\* C17: an item whose id is listed in deleted_ids is ignored; the annotation
\* that the text held under that id, of any author, is gone after the save,
\* and the save has the outcome (rows, version rows, returned list) of the
\* same save without the item.
C17_DeletedItemIgnoredOnText ==
    CanRequest =>
        \A a \in Annotators, t \in TextIds :
            \A cv \in {0, CurrentVersion(t, a)}, d \in SUBSET AnnotationIds,
               items \in Batches(Items(t)) \cup StaleBatches(t),
               pick \in PicksFor(annotations, t, a) :
                LET out == Save_(t, a, cv, d, items, pick)
                IN /\ out = Save_(t, a, cv, d, WithoutIgnored(items, d), pick)
                   /\ out.status = 200 =>
                         \A r \in annotations :
                             (r.text_id = t /\ r.id \in IgnoredIds(items, d))
                                 => /\ r.id \notin {q.id : q \in out.annotations}
                                    /\ r.id \notin {out.saved[k].id : k \in DOMAIN out.saved}

\* another author's annotation is named in deleted_ids and by an item of the
\* batch, next to an item that is stored
C17_Witness ==
    /\ CanRequest
    /\ \E a \in Annotators, r \in annotations :
          /\ r.author_id # a
          /\ \E i, j \in Items(r.text_id) :
                /\ i.id = Some(r.id)
                /\ j.id = NULL
                /\ LET out == Save_(r.text_id, a, 0, {r.id}, << i, j >>, "lowest")
                   IN /\ out.status = 200
                      /\ Len(out.saved) = 1
                      /\ r.id \notin {q.id : q \in out.annotations}

SpanOf(x) == << x.start_token, x.end_token >>

\* row r of the caller is named by no item of the batch, by id or by span
Unmatched(r, items) ==
    \A k \in DOMAIN items : items[k].id # Some(r.id) /\ SpanOf(items[k]) # SpanOf(r)

\* C18 as stated, its second half: an id-less item at a span the caller has
\* not annotated adds one row and leaves the caller's annotations unchanged.
C18_FreshSpanAddsOneRow ==
    CanRequest =>
        \A a \in Annotators, t \in TextIds :
            \A cv \in {0, CurrentVersion(t, a)}, i \in {k \in Items(t) : k.id = NULL},
               pick \in PicksFor(annotations, t, a) :
                (\A r \in annotations :
                     (r.text_id = t /\ r.author_id = a) => SpanOf(r) # SpanOf(i))
                    => LET out == Save_(t, a, cv, {}, << i >>, pick)
                           before == {r \in annotations : r.author_id = a}
                           after == {r \in out.annotations : r.author_id = a}
                       IN /\ out.status = 200
                          /\ before \subseteq after
                          /\ Cardinality(after \ before) = 1

\* C18: a save leaves every annotation of the caller unchanged that is on
\* another text, or that no item of the batch names by id or by span and
\* deleted_ids does not list; an id-less item at a span that no annotation of
\* the text occupies adds one row, of version 1, and changes no other row.
C18_UnmatchedRowsKept ==
    CanRequest =>
        \A a \in Annotators, t \in TextIds :
            \A cv \in {0, CurrentVersion(t, a)}, d \in SUBSET AnnotationIds,
               items \in Batches(Items(t)), pick \in PicksFor(annotations, t, a) :
                LET out == Save_(t, a, cv, d, items, pick)
                IN /\ \A r \in annotations :
                         (/\ r.author_id = a
                          /\ \/ r.text_id # t
                             \/ r.id \notin d /\ Unmatched(r, items))
                             => r \in out.annotations
                   /\ (/\ d = {}
                       /\ Len(items) = 1
                       /\ items[1].id = NULL
                       /\ \A r \in annotations : r.text_id = t => SpanOf(r) # SpanOf(items[1]))
                         => /\ out.status = 200
                            /\ annotations \subseteq out.annotations
                            /\ \E q \in out.annotations :
                                  /\ out.annotations \ annotations = {q}
                                  /\ q.version = 1 /\ q.author_id = a /\ q.text_id = t
                                  /\ SpanOf(q) = SpanOf(items[1])

\* the caller holds a row that a save has raised to version 2; an item at the
\* free span adds a row and an item at the row's span leaves no row unmatched
C18_Witness ==
    /\ CanRequest
    /\ \E r \in annotations :
          /\ r.version = 2
          /\ \E i, j \in {k \in Items(r.text_id) : k.id = NULL} :
                /\ SpanOf(i) # SpanOf(r)
                /\ SpanOf(j) = SpanOf(r)
                /\ \A q \in annotations : q.text_id = r.text_id => SpanOf(q) # SpanOf(i)
                /\ LET out == Save_(r.text_id, r.author_id, 2, {}, << i >>, "lowest")
                   IN r \in out.annotations /\ Cardinality(out.annotations \ annotations) = 1
                /\ r \notin Save_(r.text_id, r.author_id, 2, {}, << j >>, "lowest").annotations

\* items that no schema accepts: an unknown operation, an unknown token origin
BadOperation(item) == [item EXCEPT !.operation = "merge"]
BadOrigin(item) == [item EXCEPT !.after_tokens = << Token(item.after_tokens[1].text, "pasted") >>]
StructurallyInvalid(item) ==
    \/ item.operation \notin {"replace", "delete", "insert", "move", "noop"}
    \/ \E k \in DOMAIN item.after_tokens : item.after_tokens[k].origin \notin {"base", "inserted"}

\* an invalid item alone, or after a valid id-less item
InvalidBatches(t) ==
    LET bad == {BadOperation(i) : i \in Items(t)} \cup {BadOrigin(i) : i \in Items(t)}
    IN {<< v >> : v \in bad}
           \cup {<< j, v >> : j \in {k \in Items(t) : k.id = NULL}, v \in bad}

\* the item is compared with the server's hash and differs from it
FailsHashCheck(item, t, d) ==
    /\ NotIgnored(item, d)
    /\ item.text_sha256 # NULL
    /\ item.text_sha256 # Some(_sha256_text(t))

\* C19: a save in which an item is structurally invalid or fails the text-hash
\* check is rejected with 400, 422 or 409 and leaves the Annotation and
\* AnnotationVersion rows as they were, whatever deleted_ids lists and
\* whatever valid items come first.
C19_AllOrNothing ==
    CanRequest =>
        \A a \in Annotators, t \in TextIds :
            \A cv \in {0, CurrentVersion(t, a)}, d \in SUBSET AnnotationIds,
               items \in InvalidBatches(t) \cup StaleBatches(t),
               pick \in PicksFor(annotations, t, a) :
                LET out == Save_(t, a, cv, d, items, pick)
                IN (\E k \in DOMAIN items :
                        StructurallyInvalid(items[k]) \/ FailsHashCheck(items[k], t, d))
                       => /\ out.status \in {400, 422, 409}
                          /\ out.annotations = annotations
                          /\ out.versions = versions

\* a request deletes a row that has version rows and stores a valid item; the
\* same request followed by an item with the hash of another content is
\* refused, and so is the one followed by an item with an unknown operation
C19_Witness ==
    /\ CanRequest
    /\ \E r \in annotations :
          /\ \E v \in versions : v.annotation_id = r.id
          /\ \E j, i \in {k \in Items(r.text_id) : k.id = NULL} :
                /\ LET out == Save_(r.text_id, r.author_id, 0, {r.id}, << j >>, "lowest")
                   IN out.status = 200 /\ r \notin out.annotations
                /\ Save_(r.text_id, r.author_id, 0, {r.id},
                         << j, StaleHash(i, r.text_id) >>, "lowest").status = 409
                /\ Save_(r.text_id, r.author_id, 0, {r.id},
                         << j, BadOperation(i) >>, "lowest").status = 422

\* the item names none of the caller's annotations on the text, by id or span
MatchesNoOwn(i, t, a) ==
    \A r \in annotations :
        (r.text_id = t /\ r.author_id = a) => (i.id # Some(r.id) /\ SpanOf(r) # SpanOf(i))

\* row y has the content of the item: operation, tokens, replacement, error type
SameContent(y, i) ==
    /\ y.operation = i.operation
    /\ y.after_tokens = i.after_tokens
    /\ y.replacement = i.replacement
    /\ y.error_type_id = i.error_type_id

\* the item alone, or next to an id-less item on another span
AloneOrBeside(i, t) ==
    LET beside == {j \in Items(t) : j.id = NULL /\ SpanOf(j) # SpanOf(i)}
    IN {<< i >>} \cup {<< j, i >> : j \in beside} \cup {<< i, j >> : j \in beside}

\* C20: when an item matches none of the caller's annotations and another
\* author's annotation on its span has the same content, the save creates no
\* row for the item, leaves that author's row as it was and creates no
\* AnnotationVersion row for it.
C20_ReproducedEditIsNoOp ==
    CanRequest =>
        \A a \in Annotators, y \in annotations :
            \A cv \in {0, CurrentVersion(y.text_id, a)},
               d \in SUBSET (AnnotationIds \ {y.id}),
               i \in Items(y.text_id), pick \in PicksFor(annotations, y.text_id, a) :
                (/\ y.author_id # a
                 /\ SpanOf(i) = SpanOf(y)
                 /\ SameContent(y, i)
                 /\ MatchesNoOwn(i, y.text_id, a))
                    => \A items \in AloneOrBeside(i, y.text_id) :
                           LET out == Save_(y.text_id, a, cv, d, items, pick)
                           IN /\ out.status = 200
                              /\ y \in out.annotations
                              /\ \A q \in out.annotations :
                                    (q.id > seqs.annotations) => SpanOf(q) # SpanOf(i)
                              /\ \A v \in out.versions :
                                    v.annotation_id = y.id => v \in versions

\* the caller holds a row on one span, another author a row on the other; the
\* caller's id-less item with that row's content changes nothing, the item
\* with another content takes the row over
C20_Witness ==
    /\ CanRequest
    /\ \E y, r \in annotations :
          /\ y.author_id # r.author_id
          /\ y.text_id = r.text_id
          /\ SpanOf(y) # SpanOf(r)
          /\ \E i, j \in {k \in Items(y.text_id) : k.id = NULL /\ SpanOf(k) = SpanOf(y)} :
                /\ SameContent(y, i)
                /\ ~SameContent(y, j)
                /\ LET out == Save_(y.text_id, r.author_id, 0, {}, << i >>, "lowest")
                   IN /\ out.status = 200
                      /\ out.annotations = annotations
                      /\ out.versions = versions
                /\ y \notin Save_(y.text_id, r.author_id, 0, {}, << j >>, "lowest").annotations

\* the annotations of other authors on the span of the item, on text t
OthersOnSpan(i, t, a) ==
    {r \in annotations : r.text_id = t /\ r.author_id # a /\ SpanOf(r) = SpanOf(i)}

\* row q is row y taken over by a from the item: author, fields, version + 1
AdoptedFrom(q, y, i, a) ==
    /\ q.id = y.id
    /\ q.author_id = a
    /\ SpanOf(q) = SpanOf(i)
    /\ SameContent(q, i)
    /\ q.version = y.version + 1

\* C21: when an item matches none of the caller's annotations and only
\* annotations of other authors with another content lie on its span, the
\* save creates no row: the one of lowest id is taken over by the caller with
\* the item's fields and its version + 1, and the text keeps its number of
\* annotation rows.
C21_LowestOtherAdopted ==
    CanRequest =>
        \A a \in Annotators, t \in TextIds :
            \A cv \in {0, CurrentVersion(t, a)}, i \in Items(t),
               pick \in PicksFor(annotations, t, a) :
                (/\ MatchesNoOwn(i, t, a)
                 /\ OthersOnSpan(i, t, a) # {}
                 /\ \A r \in OthersOnSpan(i, t, a) : ~SameContent(r, i))
                    => LET out == Save_(t, a, cv, {}, << i >>, pick)
                           y == CHOOSE r \in OthersOnSpan(i, t, a) :
                                    \A q \in OthersOnSpan(i, t, a) : r.id <= q.id
                       IN /\ out.status = 200
                          /\ {q.id : q \in out.annotations} = {q.id : q \in annotations}
                          /\ \E q \in out.annotations : AdoptedFrom(q, y, i, a)

\* the item without a replacement, and with another operation
NoReplacement(item) == [item EXCEPT !.replacement = NULL]
WithOperation(item, op) == [item EXCEPT !.operation = op]
TwoTokens(item) == [item EXCEPT !.after_tokens = << Token("x", "base"), Token("y", "inserted") >>]
NoTokens(item) == [item EXCEPT !.after_tokens = << >>]

\* id-less items with and without replacement, of every operation, with no,
\* one or two tokens
ReplacementItems(t) ==
    LET base == {i \in Items(t) : i.id = NULL}
        shaped == base \cup {TwoTokens(i) : i \in base} \cup {NoTokens(i) : i \in base}
        typed == {WithOperation(i, op) : i \in shaped, op \in valid_operations}
    IN typed \cup {NoReplacement(i) : i \in typed}

\* the space-joined texts of the tokens, none when there is no token
JoinedTexts(toks) ==
    IF Len(toks) = 0 THEN NULL
    ELSE IF Len(toks) = 1 THEN Some(toks[1].text)
    ELSE Some(toks[1].text \o " " \o toks[2].text)

\* C22: a save stores the replacement the client supplied; when the item has
\* none it stores the space-joined texts of after_tokens, null when there are
\* none, except for operation noop, where it stores null whatever after_tokens
\* holds.
C22_ReplacementDerived ==
    CanRequest =>
        \A a \in Annotators, t \in TextIds :
            \A i \in ReplacementItems(t), pick \in PicksFor(annotations, t, a) :
                LET out == Save_(t, a, 0, {}, << i >>, pick)
                IN (out.status = 200 /\ Len(out.saved) = 1)
                       => out.saved[1].replacement =
                              IF i.replacement # NULL THEN i.replacement
                              ELSE IF i.operation = "noop" THEN NULL
                              ELSE JoinedTexts(i.after_tokens)

\* ---------------------------------------------- claims on concurrent saves
\* the ids of the loaded annotations that the session of a client updates
Targets(c) == {u.id : u \in UpdatedRows(saveTxs[c])}

\* both clients ended the save of one author on one text, each sent the
\* version it loaded, both had read before either committed, and both update
\* annotation x
Raced(c1, c2, x) ==
    /\ c1 # c2
    /\ saveTxs[c1].pc = "done" /\ saveTxs[c2].pc = "done"
    /\ saveTxs[c1].concurrent /\ saveTxs[c2].concurrent
    /\ saveTxs[c1].author = saveTxs[c2].author
    /\ saveTxs[c1].text = saveTxs[c2].text
    /\ saveTxs[c1].client_version = saveTxs[c1].loaded
    /\ saveTxs[c2].client_version = saveTxs[c2].loaded
    /\ x \in Targets(c1) \cap Targets(c2)

\* C23: of two saves of one author on one annotation that both read before
\* either commits, one commits and the other is rolled back and answered 409.
C23_OneWriterWins ==
    \A c1, c2 \in Clients, x \in AnnotationIds :
        Raced(c1, c2, x) =>
            {saveTxs[c1].status, saveTxs[c2].status} = {200, 409}
\* ------------------------------------------------------- claims on rendering
Rendered == rend.pc = "done"
BaseTokens == _resolve_tokens_snapshot_for_source(rend.source, rend.anns)
Without(anns, k) == SubSeq(anns, 1, k - 1) \o SubSeq(anns, k + 1, Len(anns))
Texts(tokens) == [k \in DOMAIN tokens |-> tokens[k].text]

\* C24: an annotation whose payload operation is noop has no structural effect:
\* whatever its span, before_tokens, after_tokens or replacement, applying the
\* annotations of a request yields the same token sequence as applying them
\* without the noop annotation.
C24_NoopHasNoEffect ==
    Rendered =>
        \A k \in DOMAIN rend.anns :
            rend.anns[k].operation = "noop" =>
                rend.tokens = _apply_annotations(BaseTokens, Without(rend.anns, k))


NonSpace(text) == SelectSeq(text, LAMBDA ch : ~IsSpace(ch))
RECURSIVE BreaksAfter(_, _, _)
\* the number of line breaks of a text between its k-th token and the next
BreaksAfter(text, k, seen) ==
    IF text = << >> THEN 0
    ELSE IF Head(text) = LineBreak
    THEN (IF seen = k THEN 1 ELSE 0) + BreaksAfter(Tail(text), k, seen)
    ELSE IF Head(text) = Blank THEN BreaksAfter(Tail(text), k, seen)
    ELSE IF seen = k THEN 0
    ELSE BreaksAfter(Tail(text), k, seen + 1)
OnlyNoops == \A k \in DOMAIN rend.anns : rend.anns[k].operation = "noop"
SourceKept ==
    /\ rend.tokens = BaseTokens
    /\ NonSpace(rend.text) = NonSpace(rend.source)
    /\ \A k \in 1 .. Len(NonSpace(rend.source)) :
          BreaksAfter(rend.text, k, 0) = BreaksAfter(rend.source, k, 0)

\* C25: rendering with no annotation, or with annotations that are all noop,
\* returns the base tokens unchanged and the source text up to blanks, with as
\* many line breaks after each token as the source has there.
C25_NoopRenderIsSource == Rendered /\ OnlyNoops => SourceKept

\* what the renderer does for C25: the same, when no noop annotation carries
\* before_tokens, after_tokens, a replacement or a token snapshot
C25_BareNoopRenderIsSource ==
    Rendered /\ (\A k \in DOMAIN rend.anns :
                    rend.anns[k] \in {RenderAnn(0, span, "noop", Absent, << >>, NULL, NULL, NULL) :
                                         span \in {<< -1, -1 >>, << 1, 1 >>}})
        => SourceKept


Reversed(anns) == [k \in DOMAIN anns |-> anns[Len(anns) + 1 - k]]

\* C26: the render does not depend on the order of the annotations supplied:
\* the same annotations in the opposite order (annotations without an id and
\* annotations sharing a span included) give the same rendered text.
C26_OrderIndependent ==
    Rendered => _render_corrected_text(rend.source, Reversed(rend.anns)) = rend.text

\* what the renderer does for C26: the order is immaterial when the sort keys
\* (move first, start, end, id) differ and at most one token snapshot is carried
C26_OrderIndependentWhenKeysDiffer ==
    Rendered
        /\ (\A j, k \in DOMAIN rend.anns : j # k => SortKey(rend.anns[j]) # SortKey(rend.anns[k]))
        /\ Cardinality({rend.anns[k].text_tokens : k \in DOMAIN rend.anns} \ {<< >>}) <= 1
        => _render_corrected_text(rend.source, Reversed(rend.anns)) = rend.text


SpanOfAnn(ann) == ann.start_token .. ann.end_token
DisjointEdits ==
    /\ \A k \in DOMAIN rend.anns :
          /\ rend.anns[k].operation \in {"replace", "delete", "insert"}
          /\ rend.anns[k].start_token <= rend.anns[k].end_token
          /\ Len(rend.anns[k].before_tokens) \in {0, Cardinality(SpanOfAnn(rend.anns[k]))}
    /\ \A j, k \in DOMAIN rend.anns :
          j # k => SpanOfAnn(rend.anns[j]) \cap SpanOfAnn(rend.anns[k]) = {}
RECURSIVE Flattened(_)
Flattened(fragments) ==
    IF fragments = << >> THEN << >>
    ELSE NonSpace(Head(fragments)) \o Flattened(Tail(fragments))
AfterTexts(ann) == IF ann.operation = "delete" THEN << >> ELSE Flattened(ann.after_tokens)
AfterOrReplacementTexts(ann) ==
    IF ann.operation = "delete" THEN << >>
    ELSE IF ann.after_tokens # << >> THEN Flattened(ann.after_tokens)
    ELSE NonSpace(ann.replacement)
RECURSIVE Substituted(_, _, _, _)
\* the base texts from index i on, the span of annotation k replaced by new[k]
Substituted(base, anns, new, i) ==
    IF i >= Len(base) THEN << >>
    ELSE LET starting == {k \in DOMAIN anns : anns[k].start_token = i}
             covering == {k \in DOMAIN anns :
                             anns[k].operation # "insert" /\ i \in SpanOfAnn(anns[k])}
             put == IF starting = {} THEN << >> ELSE new[CHOOSE k \in starting : TRUE]
             kept == IF covering = {} THEN << base[i + 1] >> ELSE << >>
         IN  put \o kept \o Substituted(base, anns, new, i + 1)

SingleMove ==
    /\ Len(rend.anns) = 1
    /\ rend.anns[1].operation = "move"
    /\ rend.anns[1].move_from # NULL /\ rend.anns[1].move_to # NULL /\ rend.anns[1].move_len # NULL
    /\ Val(rend.anns[1].move_to) <= Val(rend.anns[1].move_from)
    /\ Val(rend.anns[1].move_from) + Val(rend.anns[1].move_len) <= Len(BaseTokens)
MovedTexts(base, f, t, n) ==
    LET rest == SubSeq(base, 1, f) \o SubSeq(base, f + n + 1, Len(base))
    IN  SubSeq(rest, 1, t) \o SubSeq(base, f + 1, f + n) \o SubSeq(rest, t + 1, Len(rest))
RECURSIVE SpaceJoined(_)
SpaceJoined(words) ==
    IF Len(words) <= 1 THEN words
    ELSE << Head(words), Blank >> \o SpaceJoined(Tail(words))
MovedBlock ==
    MovedTexts(Texts(BaseTokens), Val(rend.anns[1].move_from), Val(rend.anns[1].move_to),
               Val(rend.anns[1].move_len))

\* C28: a single move with move_from = f, move_to = t <= f and move_len = n
\* (the block within the sequence) renders the base tokens with the block
\* f..f+n-1 cut out and re-inserted so that it starts at index t, and the text
\* is these tokens one blank apart ('gamma alpha beta' for the move 2 -> 0).
C28_BlockMoved ==
    Rendered /\ SingleMove =>
        /\ Texts(rend.tokens) = MovedBlock
        /\ rend.text = SpaceJoined(MovedBlock)

\* what the renderer does for C28: the order of the tokens is the claimed one
C28_BlockMovedTokens == Rendered /\ SingleMove => Texts(rend.tokens) = MovedBlock


\* ---------------------------------------------------------- claims on submit
Mine(anns, t, a) == {n \in anns : n.text_id = t /\ n.author_id = a}

\* C30: a submit by a of text T, when a has no annotation on T, creates exactly
\* one annotation by a on T with span (-1,-1), operation noop, no replacement
\* and version 1, and one version row for it; when a has an annotation on T it
\* creates none. After the submit a has a submitted task and an annotation on T.
C30_SubmitLeavesAnnotation ==
    [][\A a \in Annotators, t \in RequestTextIds :
          submit_annotations(t, a) =>
              /\ Mine(annotations, t, a) = {} =>
                    \E n \in annotations' \ annotations, v \in versions' \ versions :
                        /\ annotations' = annotations \cup {n}
                        /\ versions' = versions \cup {v}
                        /\ n.text_id = t /\ n.author_id = a
                        /\ n.start_token = -1 /\ n.end_token = -1
                        /\ n.operation = "noop" /\ n.replacement = NULL /\ n.version = 1
                        /\ v.annotation_id = n.id /\ v.version = 1
              /\ Mine(annotations, t, a) # {} =>
                    annotations' = annotations /\ versions' = versions
              /\ \E k \in tasks' :
                    k.text_id = t /\ k.annotator_id = a /\ k.status = "submitted"
              /\ Cardinality({k \in tasks' : k.text_id = t /\ k.annotator_id = a}) = 1
              /\ Mine(annotations', t, a) # {}]_vars

\* a text with two submitted tasks: one annotator submitted it without an
\* annotation and holds the noop annotation, the other holds an edit of their
\* own and no noop annotation
C30_Witness ==
    \E t \in TextIds, a, b \in Annotators :
        /\ a # b
        /\ \E n \in Mine(annotations, t, a) : n.operation = "noop" /\ n.start_token = -1
        /\ Mine(annotations, t, b) # {}
        /\ \A n \in Mine(annotations, t, b) : n.operation # "noop"
        /\ \A u \in {a, b} : \E k \in tasks :
              k.text_id = t /\ k.annotator_id = u /\ k.status = "submitted"


\* ---------------------------------------------------------- claims on export
Exportable(t) ==
    /\ texts[t].state \notin {"trash", "skipped"}
    /\ \E k \in tasks : k.text_id = t /\ k.status = "submitted"
LatestSubmitted(t) ==
    {k \in tasks :
        /\ k.text_id = t /\ k.status = "submitted"
        /\ \A j \in tasks :
              j.text_id = t /\ j.status = "submitted" => j.updated_at <= k.updated_at}
Ascending(l) ==
    \A j, k \in DOMAIN l :
        j < k => /\ ExportKeyLeq(l[j], l[k])
                 /\ ~ExportKeyLeq(l[k], l[j])
Response == export_submitted_texts(texts, tasks, annotations)

C29_WitnessExcluded ==
    \E t \in TextIds :
        /\ ~Exportable(t)
        /\ \E k \in tasks : k.text_id = t /\ k.status = "submitted"


\* ----------------------------------------------------------- claims on flags
FlagsOf(sk, t, a) == {s \in sk : s.text_id = t /\ s.annotator_id = a}

\* C31: a skip or trash of text T by annotator a leaves a with exactly one flag
\* row for T, of the type of the call, and a submit leaves a with none; a's
\* task on T, when there is one, takes the status of the call; a skip, trash or
\* submit of another annotator or of another text changes neither.
C31_LatestCallIsExclusive ==
    [][\A a \in Annotators, t \in TextIds :
          /\ \A f \in {"skip", "trash"} :
                _flag_text(t, f, a) =>
                    /\ FlagsOf(skipped', t, a)
                           = {[text_id |-> t, annotator_id |-> a, flag_type |-> f]}
                    /\ \A k \in TaskOf(tasks', t, a) : k.status = f
          /\ submit_annotations(t, a) =>
                /\ FlagsOf(skipped', t, a) = {}
                /\ \A k \in TaskOf(tasks', t, a) : k.status = "submitted"
          /\ \A b \in Annotators, u \in TextIds :
                /\ b # a \/ u # t
                /\ \/ submit_annotations(u, b)
                   \/ \E f \in {"skip", "trash"} : _flag_text(u, f, b)
                => /\ FlagsOf(skipped', t, a) = FlagsOf(skipped, t, a)
                   /\ TaskOf(tasks', t, a) = TaskOf(tasks, t, a)]_vars

\* an annotator holds a trash flag and a task with status trash on a text that
\* another annotator has submitted
C31_Witness ==
    \E t \in TextIds, a, b \in Annotators :
        /\ a # b
        /\ FlagsOf(skipped, t, a) = {[text_id |-> t, annotator_id |-> a, flag_type |-> "trash"]}
        /\ \E k \in TaskOf(tasks, t, a) : k.status = "trash"
        /\ FlagsOf(skipped, t, b) = {}
        /\ \E k \in TaskOf(tasks, t, b) : k.status = "submitted"


\* -------------------------------------------------- claims on terminal tasks
Terminal(tk, t, a) == \E k \in TaskOf(tk, t, a) : k.status \in terminal_statuses

\* C32: once the task of annotator a on text T is submitted, skip or trash, no
\* call of a for the next text returns T or sets the task to in_progress, and
\* the task is terminal after every later step.
C32_TerminalStaysTerminal ==
    [][\A a \in Annotators, t \in TextIds :
          Terminal(tasks, t, a) =>
              /\ Terminal(tasks', t, a)
              /\ \A k \in TaskOf(tasks', t, a) : k.status # "in_progress"
              /\ \A c \in CategoryIds :
                    get_next_text(a, c) => NextTextOutcome(texts, tasks, a, c).text # t]_vars

\* a text that still needs a submission after annotator a submitted it, and a
\* later call of a for the next text of its category that served another text
C32_Witness ==
    \E t, u \in TextIds, a \in Annotators :
        /\ t # u
        /\ texts[t].category_id = texts[u].category_id
        /\ texts[t].state = "pending"
        /\ SubmittedCount(tasks, t) < texts[t].required_annotations
        /\ texts[u].locked_by_id = Some(a)
        /\ \E k \in TaskOf(tasks, t, a), j \in TaskOf(tasks, u, a) :
              /\ k.status = "submitted"
              /\ j.status = "in_progress"
              /\ k.updated_at < j.updated_at


\* ------------------------------------------------ claims on cross-validation
\* C33: every text has at most one cross-validation row in every reachable
\* state, also when the submits of two annotators on one text interleave.
C33_OneResultPerText ==
    \A t \in TextIds : Cardinality({r \in cvResults : r.text_id = t}) <= 1


\* -------------------------------------------------- claims on the save frame
\* C34: a save on text T leaves every annotation of another text as it is, also
\* when deleted_ids or the id of an item names it; the annotations of T whose
\* id is in deleted_ids are gone after a successful save, whoever wrote them.
C34_OtherTextsUntouched ==
    CanRequest =>
        \A a \in Annotators, t \in TextIds :
            \A cv \in {0, CurrentVersion(t, a)}, d \in SUBSET AnnotationIds,
               items \in Batches(Items(t)), pick \in PicksFor(annotations, t, a) :
                LET out == Save_(t, a, cv, d, items, pick)
                IN /\ \A r \in annotations : r.text_id # t => r \in out.annotations
                   /\ \A q \in out.annotations :
                         q.text_id # t => q \in annotations
                   /\ out.status = 200 =>
                         \A r \in annotations :
                             r.text_id = t /\ r.id \in d
                                 => r.id \notin {q.id : q \in out.annotations}

\* a successful save on one text whose deleted_ids and whose item name an
\* annotation of another text, next to an annotation of another author on
\* the text of the save that deleted_ids names too
C34_Witness ==
    /\ CanRequest
    /\ \E r, o \in annotations, a \in Annotators :
          /\ r.text_id # o.text_id
          /\ o.author_id # a
          /\ \E i \in Items(o.text_id) :
                /\ i.id = Some(r.id)
                /\ LET out == Save_(o.text_id, a, 0, {r.id, o.id}, << i >>, "lowest")
                   IN /\ out.status = 200
                      /\ r \in out.annotations
                      /\ o.id \notin {q.id : q \in out.annotations}


\* ------------------------------------------------- claims on flagged texts
Flagged(sk, t) == \E s \in sk : s.text_id = t

\* C35: while a skip or trash row of any annotator exists on text T, no call
\* for the next text returns T, to any annotator.
C35_FlaggedNotServed ==
    [][\A a \in Annotators, c \in CategoryIds :
          get_next_text(a, c) =>
              LET out == NextTextOutcome(texts, tasks, a, c)
              IN out.status = 200 => ~Flagged(skipped, out.text)]_vars


\* the task of annotator a on text t, made by an assignment (an import and a
\* submit leave an annotation of a next to the task they make), was flagged
\* and the flag row is gone again, with no flag and no submission left on the
\* text
FlagCleared(t, a) ==
    /\ \E k \in TaskOf(tasks, t, a) : k.status \in {"skip", "trash"}
    /\ AnnotationsOf(t, a) = {}
    /\ ~Flagged(skipped, t)
    /\ SubmittedCount(tasks, t) = 0

Serves(t) ==
    \E b \in Annotators :
        LET out == NextTextOutcome(texts, tasks, b, texts[t].category_id)
        IN out.status = 200 /\ out.text = t

Alone(t) == \A u \in TextIds : u # t => texts[u].category_id # texts[t].category_id

\* C36: after annotator a was assigned text T, flagged it and cleared the flag,
\* with no other flag and no submission on T, T is pending and a call for the
\* next text of its category returns T to some annotator (T is the only text
\* of its category, so that no other text is served first).
C36_ClearedFlagRestores ==
    \A t \in TextIds, a \in Annotators :
        FlagCleared(t, a) /\ Alone(t) =>
            /\ texts[t].state = "pending"
            /\ Serves(t)


\* ---------------------------------------------------- claims on the lock
\* C37: a lock of annotator A on text T that has not expired stays as it is,
\* holder and time, when another annotator B submits, skips or trashes T.
C37_LockKeptFromOthers ==
    [][\A t \in TextIds, a, b \in Annotators :
          /\ a # b
          /\ texts[t].locked_by_id = Some(a)
          /\ ~LockExpired(texts[t].locked_at)
          /\ \/ submit_annotations(t, b)
             \/ \E flag_type \in {"skip", "trash"} : _flag_text(t, flag_type, b)
          => /\ texts'[t].locked_by_id = Some(a)
             /\ texts'[t].locked_at = texts[t].locked_at]_vars


\* ------------------------------------- claims on awaiting_cross_validation
Submitted(t) == {k \in tasks : k.text_id = t /\ k.status = "submitted"}

\* C38: in every reachable state a text in awaiting_cross_validation has at
\* least required_annotations submitted tasks and a cross-validation row; in
\* particular no skip, trash, unskip or untrash, and no task that goes from
\* submitted to skip or trash, leaves it in that state with fewer.
\* (It holds when the requests run one after the other; a skip that commits
\* between the COUNT and the commit of a submit breaks it.)
C38_AwaitingHasSubmissions ==
    \A t \in TextIds :
        texts[t].state = "awaiting_cross_validation" =>
            /\ Cardinality(Submitted(t)) >= texts[t].required_annotations
            /\ \E r \in cvResults : r.text_id = t


\* ------------------------------------------------ claims on duplicate spans
\* C39: after any sequence of successful saves no author owns two annotations
\* of one text with the same (start_token, end_token), also when a batch has
\* two items for one span or an item with an id moves an annotation onto a
\* span the author has annotated already.
C39_NoDuplicateSpans ==
    \A r, q \in annotations :
        /\ r.text_id = q.text_id
        /\ r.author_id = q.author_id
        /\ r.start_token = q.start_token
        /\ r.end_token = q.end_token
        => r.id = q.id


\* ------------------------------------------------------- claims on moves
Occurrences(tokens, word) == Cardinality({k \in DOMAIN tokens : tokens[k].text = word})

\* C40: a move only permutes the tokens: whatever move_from, move_to and
\* move_len are (absent, negative, beyond the tokens, longer than the text),
\* the tokens after the move are as many as before and every token text occurs
\* as often as before.
C40_MovePermutes ==
    Rendered /\ Len(rend.anns) = 1 /\ rend.anns[1].operation = "move" =>
        /\ Len(rend.tokens) = Len(BaseTokens)
        /\ \A word \in {BaseTokens[k].text : k \in DOMAIN BaseTokens}
                       \cup {rend.tokens[k].text : k \in DOMAIN rend.tokens} :
              Occurrences(rend.tokens, word) = Occurrences(BaseTokens, word)

\* a move from a negative index to an index beyond the tokens, of a length
\* below 1, that changed the order of the tokens
C40_Witness ==
    /\ Rendered
    /\ Len(rend.anns) = 1
    /\ rend.anns[1].operation = "move"
    /\ rend.anns[1].move_from = Some(-1)
    /\ rend.anns[1].move_to = Some(MaxSourceLen + 1)
    /\ rend.anns[1].move_len = Some(-1)
    /\ Texts(rend.tokens) # Texts(BaseTokens)

====
